---- MODULE Spec2Model ----
(***************************************************************************)
(* TenisPro order management: the order lifecycle and the inventory       *)
(* bookkeeping of the order / product / customer services and their       *)
(* repositories, over the PostgreSQL tables of the initial migration.     *)
(*                                                                         *)
(* Every service call is a process that runs one database statement per   *)
(* step (each `await` of the source is a step).  Money is counted in      *)
(* cents, the scale of the DECIMAL(n,2) columns; a value computed by the  *)
(* service before it is stored is a pair [c, f] = c + f/100 cents.        *)
(* Ids are positions: a customer / order id is its index in the table.    *)
(* An order number ORD-<year>-<nnnn> is modelled by its sequence part:    *)
(* all orders of a behaviour are created in the same year.                *)
(***************************************************************************)
EXTENDS Integers, Sequences, FiniteSets, TLC

VARIABLES
  products,    \* table products:  [Products -> row]
  customers,   \* table customers: sequence of rows, id = index
  orders,      \* tables orders + order_items: sequence of rows, id = index
  procs,       \* the service calls in flight, one per request slot
  created      \* history: created[id] = the order as order.create returned it

vars == <<products, customers, orders, procs, created>>

----------------------------------------------------------------------------
(* Bounds of the model *)

MaxOrders == 1        \* orders created in one behaviour
MaxStock == 12        \* largest stock a cancellation or restoreStock may build up
MaxCustomers == 3     \* rows of the customers table
MaxConcStock == 3     \* what cancel and restoreStock may build up in ConcSpec
MaxSameEmail == 2     \* orders created in one behaviour of CustSpec

Products == {"P", "Q"}
Emails == {"ana@x.co", "leo@x.co"}
Procs == {1, 2}
SeqProcs == {1}

NoPrice == -1         \* unitPrice absent from an order line
NoId == 0             \* customerId absent from the input
NoEmail == ""         \* inline customer data absent from the input
NullDate == "null"
SomeDate == "date"    \* a value of new Date()

----------------------------------------------------------------------------
(* Program constants *)

OrderStatus == {"PENDIENTE", "PROCESANDO", "DESPACHADO", "CANCELADO"}

\* order.types.ts: the table in force ("All transitions are now allowed")
ORDER_STATUS_TRANSITIONS ==
  [ PENDIENTE  |-> {"PROCESANDO", "DESPACHADO", "CANCELADO"},
    PROCESANDO |-> {"PENDIENTE", "DESPACHADO", "CANCELADO"},
    DESPACHADO |-> {"PENDIENTE", "PROCESANDO", "CANCELADO"},
    CANCELADO  |-> {"PENDIENTE", "PROCESANDO", "DESPACHADO"} ]

\* TAX_RATE = 0.19, as hundredths
TAX_RATE == 19

LOW_STOCK_THRESHOLD == 5

----------------------------------------------------------------------------
(* Money: what the service computes and what the DECIMAL(n,2) column keeps *)

\* a whole number of cents as a service-side value
Exact(c) == [c |-> c, f |-> 0]

\* s * TAX_RATE for a subtotal of s >= 0 cents: 19 s / 100 cents
TimesTaxRate(s) == [c |-> (TAX_RATE * s) \div 100, f |-> (TAX_RATE * s) % 100]

\* a + b of service-side values (f stays in 0..99)
AddExact(a, b) ==
  [c |-> a.c + b.c + ((a.f + b.f) \div 100), f |-> (a.f + b.f) % 100]

\* a - n for a whole number n of cents
SubCents(a, n) == [c |-> a.c - n, f |-> a.f]

\* storing a number in a DECIMAL(n,2) column: PostgreSQL rounds to the
\* nearest cent, ties away from zero
ToDecimal2(a) ==
  IF a.c >= 0
    THEN (IF a.f >= 50 THEN a.c + 1 ELSE a.c)
    ELSE (IF a.f > 50 THEN a.c + 1 ELSE a.c)

----------------------------------------------------------------------------
(* Sequence helpers *)

RECURSIVE SumSeq(_)
SumSeq(s) == IF s = <<>> THEN 0 ELSE Head(s) + SumSeq(Tail(s))

Range(s) == {s[i] : i \in DOMAIN s}

\* total quantity of product p over a sequence of lines / order items
QtyOf(items, p) ==
  SumSeq([i \in DOMAIN items |->
            IF items[i].productId = p THEN items[i].quantity ELSE 0])

----------------------------------------------------------------------------
(* Queries of the repositories.  findUnique gives <<>> (null) or <<row>>. *)

OrderIds == DOMAIN orders
CustomerIds == DOMAIN customers

\* an include that shows each item at its product's live price
WithLivePrices(id) ==
  [ id         |-> id,
    order      |-> orders[id],
    customer   |-> <<customers[orders[id].customerId]>>,
    orderItems |-> [i \in DOMAIN orders[id].orderItems |->
                     [ item    |-> [orders[id].orderItems[i] EXCEPT
                                      !.unitPrice =
                                         products[orders[id].orderItems[i].productId].price],
                       product |-> <<products[orders[id].orderItems[i].productId]>> ]] ]

\* Prisma `include: { customer: true, orderItems: { include: { product: true } } }`:
\* the relations are joined by foreign key, whatever their isDeleted flag
WithRelations(id) ==
  [ id         |-> id,
    order      |-> orders[id],
    customer   |-> <<customers[orders[id].customerId]>>,
    orderItems |-> [i \in DOMAIN orders[id].orderItems |->
                     [ item    |-> orders[id].orderItems[i],
                       product |-> <<products[orders[id].orderItems[i].productId]>> ]] ]

\* OrderRepository.findById
FindById(id) ==
  IF id \in OrderIds /\ ~orders[id].isDeleted THEN <<WithRelations(id)>> ELSE <<>>

\* OrderRepository.findByOrderNumber (order_number is unique)
FindByOrderNumber(n) ==
  LET hit == {id \in OrderIds : orders[id].orderNumber = n /\ ~orders[id].isDeleted}
  IN IF hit = {} THEN <<>> ELSE <<WithRelations(CHOOSE id \in hit : TRUE)>>

\* the filters of OrderRepository.findMany this model uses; "" / NoId / "" = absent
NoDate == 0           \* dateFrom / dateTo absent from the filters

\* createdAt is the order's place in the order of creation (id 1 first);
\* amounts are NoPrice and dates NoDate when the filter is absent
NoFilters ==
  [orderStatus |-> "", customerId |-> NoId, productId |-> "",
   dateFrom |-> NoDate, dateTo |-> NoDate,
   minAmount |-> NoPrice, maxAmount |-> NoPrice]

\* the createdAt key of the where clause: `...(filters.dateTo && {createdAt:
\* {lte}})` is spread after the dateFrom one and replaces it
WhereCreatedAt(id, filters) ==
  IF filters.dateTo # NoDate THEN id <= filters.dateTo
  ELSE IF filters.dateFrom # NoDate THEN id >= filters.dateFrom
  ELSE TRUE

\* the totalAmount key of the where clause: a bound of 0 is falsy and adds
\* no key; the maxAmount key replaces the minAmount one
WhereTotalAmount(id, filters) ==
  IF filters.maxAmount \notin {NoPrice, 0}
    THEN orders[id].totalAmount <= filters.maxAmount
  ELSE IF filters.minAmount \notin {NoPrice, 0}
    THEN orders[id].totalAmount >= filters.minAmount
  ELSE TRUE

\* a where clause without `isDeleted: false`
OrderMatchesDeleted(id, filters) ==
  /\ filters.orderStatus # "" => orders[id].orderStatus = filters.orderStatus
  /\ filters.customerId # NoId => orders[id].customerId = filters.customerId
  /\ WhereCreatedAt(id, filters)
  /\ WhereTotalAmount(id, filters)
  /\ filters.productId # "" =>
       \E i \in DOMAIN orders[id].orderItems :
          orders[id].orderItems[i].productId = filters.productId

\* the where clause of OrderRepository.findMany
OrderMatches(id, filters) ==
  /\ ~orders[id].isDeleted
  /\ filters.orderStatus # "" => orders[id].orderStatus = filters.orderStatus
  /\ filters.customerId # NoId => orders[id].customerId = filters.customerId
  /\ WhereCreatedAt(id, filters)
  /\ WhereTotalAmount(id, filters)
  /\ filters.productId # "" =>
       \E i \in DOMAIN orders[id].orderItems :
          orders[id].orderItems[i].productId = filters.productId

RECURSIVE MatchingIds(_, _)
\* the orders among n, n-1 .. 1 that match the where clause, newest first
MatchingIds(n, filters) ==
  IF n = 0 THEN <<>>
  ELSE (IF OrderMatches(n, filters) THEN <<n>> ELSE <<>>) \o MatchingIds(n - 1, filters)

\* OrderRepository.findMany: newest first, then skip / take
FindMany(filters, page, limit) ==
  LET all == MatchingIds(Len(orders), filters)
      skip == (page - 1) * limit
      last == IF skip + limit < Len(all) THEN skip + limit ELSE Len(all)
  IN [ data  |-> [k \in 1..(IF last > skip THEN last - skip ELSE 0) |->
                    WithRelations(all[skip + k])],
       total |-> Len(all) ]

\* OrderService.getPendingOrders
GetPendingOrders ==
  FindMany([NoFilters EXCEPT !.orderStatus = "PENDIENTE"], 1, 100).data

\* OrderService.getByCustomerId
GetByCustomerId(c, page, limit) ==
  FindMany([NoFilters EXCEPT !.customerId = c], page, limit)

\* OrderRepository.findProductById: only products that are on sale
FindProductById(id) ==
  IF id \in Products /\ ~products[id].isDeleted /\ products[id].isActive
    THEN <<products[id]>> ELSE <<>>

\* OrderRepository.findCustomerById
FindCustomerById(id) ==
  IF id \in CustomerIds /\ ~customers[id].isDeleted THEN <<id>> ELSE <<>>

\* a lookup that forgets the email: any live customer will do
FindAnyCustomer(email) ==
  LET hit == {c \in CustomerIds : ~customers[c].isDeleted}
  IN IF hit = {} THEN <<>> ELSE <<CHOOSE c \in hit : TRUE>>

\* OrderRepository.findCustomerByEmail: the id of the live customer with the email
FindCustomerByEmail(email) ==
  LET hit == {c \in CustomerIds : customers[c].email = email /\ ~customers[c].isDeleted}
  IN IF hit = {} THEN <<>> ELSE <<CHOOSE c \in hit : TRUE>>

\* OrderRepository.generateOrderNumber: count of this year's orders, plus one
GenerateOrderNumber == Len(orders) + 1

\* ProductRepository.findById
ProductFindById(id) ==
  IF id \in Products /\ ~products[id].isDeleted THEN <<products[id]>> ELSE <<>>

\* ProductRepository.findMany: the ids it returns; filters isActive in
\* {"any", "yes", "no"} and inStock
ProductFindMany(isActive, inStock) ==
  {id \in Products :
     /\ ~products[id].isDeleted
     /\ isActive = "yes" => products[id].isActive
     /\ isActive = "no" => ~products[id].isActive
     /\ inStock => products[id].availableAmount > 0}

\* ProductRepository.getLowStockProducts
GetLowStockProducts(threshold) ==
  {id \in Products :
     /\ ~products[id].isDeleted
     /\ products[id].isActive
     /\ products[id].availableAmount <= threshold}

\* CustomerRepository.findById
CustomerFindById(id) ==
  IF id \in CustomerIds /\ ~customers[id].isDeleted THEN <<customers[id]>> ELSE <<>>

\* CustomerRepository.findMany: the ids it returns; email "" = no filter
CustomerFindMany(email) ==
  {c \in CustomerIds :
     /\ ~customers[c].isDeleted
     /\ email # NoEmail => customers[c].email = email}

----------------------------------------------------------------------------
(* Service calls in flight *)

Ok(id) == [ok |-> TRUE, code |-> "", id |-> id]
Err(code) == [ok |-> FALSE, code |-> code, id |-> NoId]

\* the tables as the call found them (kept for calls that run alone)
Snapshot == [products |-> products, customers |-> customers, orders |-> orders]
NoSnapshot == [products |-> <<>>, customers |-> <<>>, orders |-> <<>>]

Idle ==
  [op |-> "idle", pc |-> "idle", arg |-> <<>>, loc |-> <<>>,
   res |-> Err("none"), pre |-> NoSnapshot]

\* the call of process p is accepted
Call(p, op, pc, arg, loc, snap) ==
  /\ procs[p].pc = "idle"
  /\ procs' = [procs EXCEPT ![p] =
       [op |-> op, pc |-> pc, arg |-> arg, loc |-> loc,
        res |-> Err("none"), pre |-> snap]]

\* process p moves on to its next statement
Goto(p, pc, loc) == procs' = [procs EXCEPT ![p].pc = pc, ![p].loc = loc]

\* the call of process p returns res to the router
Done(p, res) ==
  procs' = [procs EXCEPT ![p].pc = "done", ![p].loc = <<>>, ![p].res = res]

\* the router has sent the response: the request slot is free again
Return(p) ==
  /\ procs[p].pc = "done"
  /\ procs' = [procs EXCEPT ![p] = Idle]
  /\ UNCHANGED <<products, customers, orders, created>>

----------------------------------------------------------------------------
(* OrderService.create *)

\* validateStock, one order line: the verdict so far and the line's product
ValidateStockLine(line, isValid) ==
  LET product == FindProductById(line.productId)
  IN IF product = <<>> THEN FALSE
     ELSE IF product[1].availableAmount < line.quantity THEN FALSE
     ELSE isValid

\* item.unitPrice ?? Number(product.price)
UnitPriceOf(line, product) ==
  IF line.unitPrice # NoPrice THEN line.unitPrice ELSE product[1].price

\* calculateOrderTotals once the subtotal is summed; values before storage
CalculateOrderTotals(subtotal, shippingCost, discount) ==
  LET taxAmount == TimesTaxRate(subtotal)
  IN [ subtotal     |-> Exact(subtotal),
       taxAmount    |-> taxAmount,
       shippingCost |-> Exact(shippingCost),
       discount     |-> Exact(discount),
       totalAmount  |-> SubCents(AddExact(AddExact(Exact(subtotal), taxAmount),
                                          Exact(shippingCost)), discount) ]

\* orderData of OrderService.create as the orders row that tx.order.create
\* inserts: the DECIMAL columns round, the defaults fill the rest
OrderRow(orderNumber, customerId, calculation) ==
  [ orderNumber  |-> orderNumber,
    orderStatus  |-> "PENDIENTE",
    customerId   |-> customerId,
    totalAmount  |-> ToDecimal2(calculation.totalAmount),
    subtotal     |-> ToDecimal2(calculation.subtotal),
    taxAmount    |-> ToDecimal2(calculation.taxAmount),
    shippingCost |-> ToDecimal2(calculation.shippingCost),
    discount     |-> ToDecimal2(calculation.discount),
    shippedAt    |-> NullDate,
    cancelledAt  |-> NullDate,
    isDeleted    |-> FALSE,
    orderItems   |-> <<>> ]

\* one entry of orderItemsData
OrderItemData(line, unitPrice) ==
  [ productId  |-> line.productId,
    quantity   |-> line.quantity,
    unitPrice  |-> unitPrice,
    totalPrice |-> unitPrice * line.quantity,
    discount   |-> 0 ]

\* the statements of the transaction of OrderRepository.create.  A statement
\* fails when the database refuses it; fault > 0 is the statement a database
\* fault (lost connection, timeout, deadlock) hits.
TxFaults == 0..4

CreateFailsAt(row, fault) ==
  IF \E id \in OrderIds : orders[id].orderNumber = row.orderNumber
    THEN 1                      \* orders_order_number_key
    ELSE fault

\* the tables after the first n statements of the transaction
CreateStatements(row, items, n) ==
  LET id == Len(orders) + 1
      inserted == Append(orders, row)
  IN [ orders   |-> IF n >= 2 THEN [inserted EXCEPT ![id].orderItems = items]
                    ELSE IF n >= 1 THEN inserted
                    ELSE orders,
       products |-> IF n >= 3
                      THEN [p \in Products |->
                             [products[p] EXCEPT !.availableAmount =
                                 @ - QtyOf(items, p)]]
                      ELSE products ]

\* a transaction without rollback: what the statements before the failure wrote stays
RepositoryCreateNoRollback(row, items, fault) ==
  LET failsAt == CreateFailsAt(row, fault)
      after == CreateStatements(row, items, IF failsAt = 0 THEN 4 ELSE failsAt - 1)
  IN [ok |-> failsAt = 0, orders |-> after.orders, products |-> after.products]

\* OrderRepository.create: db.$transaction commits all four statements or none
RepositoryCreate(row, items, fault) ==
  LET failsAt == CreateFailsAt(row, fault)
      after == CreateStatements(row, items, IF failsAt = 0 THEN 4 ELSE 0)
  IN [ok |-> failsAt = 0, orders |-> after.orders, products |-> after.products]

CreateLoc ==
  [i |-> 1, isValid |-> TRUE, customerId |-> NoId, subtotal |-> 0,
   orderNumber |-> 0, items |-> <<>>]

\* order.create arrives
CreateCall(p, input, cap, snap) ==
  /\ Len(orders) < cap
  /\ input.email # NoEmail => Len(customers) < MaxCustomers
  /\ Call(p, "create", "validateStock", input, CreateLoc, snap)
  /\ UNCHANGED <<products, customers, orders, created>>

\* validateStock: findProductById of line i; after the last line, the verdict
CreateValidateStock(p) ==
  LET me == procs[p]
      isValid == ValidateStockLine(me.arg.lines[me.loc.i], me.loc.isValid)
  IN /\ me.op = "create" /\ me.pc = "validateStock"
     /\ IF me.loc.i < Len(me.arg.lines)
          THEN Goto(p, "validateStock",
                    [me.loc EXCEPT !.i = @ + 1, !.isValid = isValid])
          ELSE IF ~isValid
            THEN Done(p, Err("PRODUCT_INSUFFICIENT_INVENTORY"))
            ELSE Goto(p, "getOrCreateCustomer", [me.loc EXCEPT !.isValid = isValid])
     /\ UNCHANGED <<products, customers, orders, created>>

\* getOrCreateCustomer up to its lookup
CreateGetCustomer(p) ==
  LET me == procs[p]
      found == IF me.arg.customerId # NoId
                 THEN FindCustomerById(me.arg.customerId)
                 ELSE FindCustomerByEmail(me.arg.email)
  IN /\ me.op = "create" /\ me.pc = "getOrCreateCustomer"
     /\ IF me.arg.customerId = NoId /\ me.arg.email = NoEmail
          THEN Done(p, Err("VALIDATION_INVALID_INPUT"))
          ELSE IF found # <<>>
            THEN Goto(p, "calculateOrderTotals",
                      [me.loc EXCEPT !.customerId = found[1], !.i = 1])
            ELSE IF me.arg.customerId # NoId
              THEN Done(p, Err("CUSTOMER_NOT_FOUND"))
              ELSE Goto(p, "createCustomer", me.loc)
     /\ UNCHANGED <<products, customers, orders, created>>

\* OrderRepository.createCustomer: customers_email_key rejects a taken email
CreateCustomer(p) ==
  LET me == procs[p]
  IN /\ me.op = "create" /\ me.pc = "createCustomer"
     /\ IF \E c \in CustomerIds : customers[c].email = me.arg.email
          THEN /\ Done(p, Err("CUSTOMER_EMAIL_EXISTS"))
               /\ UNCHANGED customers
          ELSE /\ customers' = Append(customers,
                     [email |-> me.arg.email, isActive |-> TRUE, isDeleted |-> FALSE])
               /\ Goto(p, "calculateOrderTotals",
                       [me.loc EXCEPT !.customerId = Len(customers) + 1, !.i = 1])
     /\ UNCHANGED <<products, orders, created>>

\* calculateOrderTotals: findProductById of line i, the subtotal grows
CreateCalculateTotals(p) ==
  LET me == procs[p]
      line == me.arg.lines[me.loc.i]
      product == FindProductById(line.productId)
  IN /\ me.op = "create" /\ me.pc = "calculateOrderTotals"
     /\ IF product = <<>>
          THEN Done(p, Err("PRODUCT_NOT_FOUND"))
          ELSE LET subtotal == me.loc.subtotal + UnitPriceOf(line, product) * line.quantity
               IN IF me.loc.i < Len(me.arg.lines)
                    THEN Goto(p, "calculateOrderTotals",
                              [me.loc EXCEPT !.i = @ + 1, !.subtotal = subtotal])
                    ELSE Goto(p, "generateOrderNumber",
                              [me.loc EXCEPT !.subtotal = subtotal])
     /\ UNCHANGED <<products, customers, orders, created>>

\* generateOrderNumber
CreateOrderNumber(p) ==
  LET me == procs[p]
  IN /\ me.op = "create" /\ me.pc = "generateOrderNumber"
     /\ Goto(p, "orderItemsData",
             [me.loc EXCEPT !.orderNumber = GenerateOrderNumber, !.i = 1])
     /\ UNCHANGED <<products, customers, orders, created>>

\* the loop that prepares orderItemsData: findProductById of line i.
\* `productResult.data!` is null when the product is gone by now, and
\* `product.price` is read only when the line gives no unit price.
CreateItemsData(p) ==
  LET me == procs[p]
      line == me.arg.lines[me.loc.i]
      product == FindProductById(line.productId)
  IN /\ me.op = "create" /\ me.pc = "orderItemsData"
     /\ IF product = <<>> /\ line.unitPrice = NoPrice
          THEN Done(p, Err("THROWN_TypeError"))
          ELSE LET items == Append(me.loc.items,
                                   OrderItemData(line, UnitPriceOf(line, product)))
               IN IF me.loc.i < Len(me.arg.lines)
                    THEN Goto(p, "orderItemsData",
                              [me.loc EXCEPT !.i = @ + 1, !.items = items])
                    ELSE Goto(p, "createTx", [me.loc EXCEPT !.items = items])
     /\ UNCHANGED <<products, customers, orders, created>>

\* orderRepository.create(orderData, orderItemsData)
CreateTx(p) ==
  LET me == procs[p]
      calculation == CalculateOrderTotals(me.loc.subtotal, me.arg.shippingCost,
                                          me.arg.discount)
      row == OrderRow(me.loc.orderNumber, me.loc.customerId, calculation)
  IN /\ me.op = "create" /\ me.pc = "createTx"
     /\ \E fault \in TxFaults :
          LET tx == RepositoryCreate(row, me.loc.items, fault)
          IN /\ orders' = tx.orders
             /\ products' = tx.products
             /\ IF tx.ok
                  THEN /\ created' = Append(created,
                            [order |-> tx.orders[Len(tx.orders)], email |-> me.arg.email])
                       /\ Done(p, Ok(Len(tx.orders)))
                  ELSE /\ UNCHANGED created
                       /\ Done(p, Err("DATABASE_QUERY_ERROR"))
     /\ UNCHANGED customers

Create(p) ==
  \/ CreateValidateStock(p)
  \/ CreateGetCustomer(p)
  \/ CreateCustomer(p)
  \/ CreateCalculateTotals(p)
  \/ CreateOrderNumber(p)
  \/ CreateItemsData(p)
  \/ CreateTx(p)

----------------------------------------------------------------------------
(* OrderService.cancel *)

\* validateStatusTransition
ValidateStatusTransition(currentStatus, newStatus) ==
  newStatus \in ORDER_STATUS_TRANSITIONS[currentStatus]

\* order.cancel arrives; stockCap bounds the stock a cancellation may build up
CancelCall(p, id, stockCap, snap) ==
  /\ \A q \in Products :
        products[q].availableAmount + QtyOf(orders[id].orderItems, q) <= stockCap
  /\ Call(p, "cancel", "cancelFind", [id |-> id], <<>>, snap)
  /\ UNCHANGED <<products, customers, orders, created>>

\* a cancel that does not look at the current status
CancelFindUnchecked(p) ==
  LET me == procs[p]
      current == FindById(me.arg.id)
  IN /\ me.op = "cancel" /\ me.pc = "cancelFind"
     /\ IF current = <<>>
          THEN Done(p, Err("ORDER_NOT_FOUND"))
          ELSE Goto(p, "cancelTxRead", <<>>)
     /\ UNCHANGED <<products, customers, orders, created>>

\* findById and the checks of OrderService.cancel
CancelFind(p) ==
  LET me == procs[p]
      current == FindById(me.arg.id)
  IN /\ me.op = "cancel" /\ me.pc = "cancelFind"
     /\ IF current = <<>>
          THEN Done(p, Err("ORDER_NOT_FOUND"))
          ELSE IF current[1].order.orderStatus = "CANCELADO"
            THEN Done(p, Err("ORDER_ALREADY_CANCELLED"))
            ELSE IF ~ValidateStatusTransition(current[1].order.orderStatus, "CANCELADO")
              THEN Done(p, Err("ORDER_INVALID_STATUS_TRANSITION"))
              ELSE Goto(p, "cancelTxRead", <<>>)
     /\ UNCHANGED <<products, customers, orders, created>>

\* OrderRepository.cancelOrder, first statement: tx.order.findUnique.  Under
\* PostgreSQL's READ COMMITTED it sees what is committed at this moment.
CancelTxRead(p) ==
  LET me == procs[p]
      id == me.arg.id
  IN /\ me.op = "cancel" /\ me.pc = "cancelTxRead"
     /\ IF orders[id].isDeleted
          THEN Done(p, Err("DATABASE_QUERY_ERROR"))     \* throw new Error('Order not found')
          ELSE Goto(p, "cancelTxWrite",
                    [orderStatus |-> orders[id].orderStatus,
                     orderItems  |-> orders[id].orderItems])
     /\ UNCHANGED <<products, customers, orders, created>>

\* cancelOrder with the increments left out
RestoreStockForgotten(read) == products

\* the stock after cancelOrder's increments, decided on the order as it was read
RestoreStock(read) ==
  IF read.orderStatus # "CANCELADO"
    THEN [q \in Products |->
            [products[q] EXCEPT !.availableAmount = @ + QtyOf(read.orderItems, q)]]
    ELSE products

\* OrderRepository.cancelOrder, the writes: tx.order.update, then the
\* increments; the row locks they take are held until the commit, so they
\* become visible together
CancelTxWrite(p) ==
  LET me == procs[p]
      id == me.arg.id
  IN /\ me.op = "cancel" /\ me.pc = "cancelTxWrite"
     /\ orders' = [orders EXCEPT ![id].orderStatus = "CANCELADO",
                                 ![id].cancelledAt = SomeDate]
     /\ products' = RestoreStock(me.loc)
     /\ Done(p, Ok(id))
     /\ UNCHANGED <<customers, created>>

Cancel(p) == CancelFind(p) \/ CancelTxRead(p) \/ CancelTxWrite(p)

----------------------------------------------------------------------------
(* OrderService.update / updateStatus *)

NoStatus == ""

\* order.update arrives; data = [orderStatus, shippingCost, discount], each
\* NoStatus / NoPrice when absent
UpdateCall(p, id, data, snap) ==
  /\ Call(p, "update", "updateFind", [id |-> id, data |-> data], <<>>, snap)
  /\ UNCHANGED <<products, customers, orders, created>>

\* updateStatus(id, status) is update(id, {orderStatus: status})
UpdateStatusData(status) ==
  [orderStatus |-> status, shippingCost |-> NoPrice, discount |-> NoPrice]

\* findById and the transition check of OrderService.update
UpdateFind(p) ==
  LET me == procs[p]
      current == FindById(me.arg.id)
      status == me.arg.data.orderStatus
  IN /\ me.op = "update" /\ me.pc = "updateFind"
     /\ IF current = <<>>
          THEN Done(p, Err("ORDER_NOT_FOUND"))
          ELSE IF /\ status # NoStatus
                  /\ status # current[1].order.orderStatus
                  /\ ~ValidateStatusTransition(current[1].order.orderStatus, status)
            THEN Done(p, Err("ORDER_INVALID_STATUS_TRANSITION"))
            ELSE Goto(p, "updateWrite", <<>>)
     /\ UNCHANGED <<products, customers, orders, created>>

\* updateData applied to the row by OrderRepository.update
UpdatedRow(row, data) ==
  [row EXCEPT
     !.orderStatus  = IF data.orderStatus # NoStatus THEN data.orderStatus ELSE @,
     !.shippingCost = IF data.shippingCost # NoPrice THEN data.shippingCost ELSE @,
     !.discount     = IF data.discount # NoPrice THEN data.discount ELSE @,
     !.shippedAt    = IF data.orderStatus = "DESPACHADO" THEN SomeDate ELSE @,
     !.cancelledAt  = IF data.orderStatus = "CANCELADO" THEN SomeDate ELSE @]

\* an update that gives the stock back when the new status is CANCELADO
UpdateWriteRestoring(p) ==
  LET me == procs[p]
      id == me.arg.id
  IN /\ me.op = "update" /\ me.pc = "updateWrite"
     /\ orders' = [orders EXCEPT ![id] = UpdatedRow(@, me.arg.data)]
     /\ products' = IF me.arg.data.orderStatus = "CANCELADO"
                      THEN RestoreStock(orders[id]) ELSE products
     /\ Done(p, Ok(id))
     /\ UNCHANGED <<customers, created>>

\* OrderRepository.update: where { id, isDeleted: false }
UpdateWrite(p) ==
  LET me == procs[p]
      id == me.arg.id
  IN /\ me.op = "update" /\ me.pc = "updateWrite"
     /\ IF orders[id].isDeleted
          THEN /\ Done(p, Err("ORDER_NOT_FOUND"))       \* P2025
               /\ UNCHANGED orders
          ELSE /\ orders' = [orders EXCEPT ![id] = UpdatedRow(@, me.arg.data)]
               /\ Done(p, Ok(id))
     /\ UNCHANGED <<products, customers, created>>

Update(p) == UpdateFind(p) \/ UpdateWrite(p)

----------------------------------------------------------------------------
(* OrderService.delete *)

DeleteCall(p, id, snap) ==
  /\ Call(p, "delete", "deleteFind", [id |-> id], <<>>, snap)
  /\ UNCHANGED <<products, customers, orders, created>>

\* a delete that does not look at the status
DeleteFindAnyStatus(p) ==
  LET me == procs[p]
      current == FindById(me.arg.id)
  IN /\ me.op = "delete" /\ me.pc = "deleteFind"
     /\ IF current = <<>>
          THEN Done(p, Err("ORDER_NOT_FOUND"))
          ELSE Goto(p, "deleteWrite", <<>>)
     /\ UNCHANGED <<products, customers, orders, created>>

\* only cancelled or pending orders can be deleted
DeleteFind(p) ==
  LET me == procs[p]
      current == FindById(me.arg.id)
  IN /\ me.op = "delete" /\ me.pc = "deleteFind"
     /\ IF current = <<>>
          THEN Done(p, Err("ORDER_NOT_FOUND"))
          ELSE IF current[1].order.orderStatus \notin {"CANCELADO", "PENDIENTE"}
            THEN Done(p, Err("VALIDATION_INVALID_INPUT"))
            ELSE Goto(p, "deleteWrite", <<>>)
     /\ UNCHANGED <<products, customers, orders, created>>

\* OrderRepository.delete: where { id, isDeleted: false }
DeleteWrite(p) ==
  LET me == procs[p]
      id == me.arg.id
  IN /\ me.op = "delete" /\ me.pc = "deleteWrite"
     /\ IF orders[id].isDeleted
          THEN /\ Done(p, Err("ORDER_NOT_FOUND"))       \* P2025
               /\ UNCHANGED orders
          ELSE /\ orders' = [orders EXCEPT ![id].isDeleted = TRUE]
               /\ Done(p, Ok(id))
     /\ UNCHANGED <<products, customers, created>>

Delete(p) == DeleteFind(p) \/ DeleteWrite(p)

----------------------------------------------------------------------------
(* ProductService *)

\* ProductService.validatePrice, in cents: 0 .. 10 million COP
ValidatePrice(price) == price >= 0 /\ price <= 10000000 * 100

\* ProductService.validateStock
ValidateStock(amount) == amount >= 0

\* product.update(id, {price}) arrives
ProductUpdateCall(p, id, price, snap) ==
  /\ Call(p, "productUpdate", "productUpdateFind", [id |-> id, price |-> price],
          <<>>, snap)
  /\ UNCHANGED <<products, customers, orders, created>>

\* getById and the validation of ProductService.update
ProductUpdateFind(p) ==
  LET me == procs[p]
  IN /\ me.op = "productUpdate" /\ me.pc = "productUpdateFind"
     /\ IF ProductFindById(me.arg.id) = <<>>
          THEN Done(p, Err("PRODUCT_NOT_FOUND"))
          ELSE IF ~ValidatePrice(me.arg.price)
            THEN Done(p, Err("PRODUCT_PRICE_INVALID"))
            ELSE Goto(p, "productUpdateWrite", <<>>)
     /\ UNCHANGED <<products, customers, orders, created>>

\* ProductRepository.update: where { id }
ProductUpdateWrite(p) ==
  LET me == procs[p]
  IN /\ me.op = "productUpdate" /\ me.pc = "productUpdateWrite"
     /\ products' = [products EXCEPT ![me.arg.id].price = me.arg.price]
     /\ Done(p, Ok(NoId))
     /\ UNCHANGED <<customers, orders, created>>

ProductUpdate(p) == ProductUpdateFind(p) \/ ProductUpdateWrite(p)

\* product.delete arrives
ProductDeleteCall(p, id, snap) ==
  /\ Call(p, "productDelete", "productDeleteFind", [id |-> id], <<>>, snap)
  /\ UNCHANGED <<products, customers, orders, created>>

ProductDeleteFind(p) ==
  LET me == procs[p]
  IN /\ me.op = "productDelete" /\ me.pc = "productDeleteFind"
     /\ IF ProductFindById(me.arg.id) = <<>>
          THEN Done(p, Err("PRODUCT_NOT_FOUND"))
          ELSE Goto(p, "productDeleteWrite", <<>>)
     /\ UNCHANGED <<products, customers, orders, created>>

\* ProductRepository.softDelete
ProductDeleteWrite(p) ==
  LET me == procs[p]
  IN /\ me.op = "productDelete" /\ me.pc = "productDeleteWrite"
     /\ products' = [products EXCEPT ![me.arg.id].isDeleted = TRUE,
                                     ![me.arg.id].isActive = FALSE]
     /\ Done(p, Ok(NoId))
     /\ UNCHANGED <<customers, orders, created>>

ProductDelete(p) == ProductDeleteFind(p) \/ ProductDeleteWrite(p)

\* product.deactivate arrives
DeactivateCall(p, id, snap) ==
  /\ Call(p, "deactivate", "deactivateWrite", [id |-> id], <<>>, snap)
  /\ UNCHANGED <<products, customers, orders, created>>

\* ProductService.deactivate: productRepository.update(id, {isActive: false}),
\* with no look at the product first
Deactivate(p) ==
  LET me == procs[p]
  IN /\ me.op = "deactivate" /\ me.pc = "deactivateWrite"
     /\ products' = [products EXCEPT ![me.arg.id].isActive = FALSE]
     /\ Done(p, Ok(NoId))
     /\ UNCHANGED <<customers, orders, created>>

\* reserveStock with the checks on the product left out
ReserveStockUnchecked(product, quantity) ==
  IF product = <<>> THEN "PRODUCT_NOT_FOUND" ELSE ""

\* the checks of ProductService.reserveStock on the product it has read:
\* the error code, "" when the reservation may go ahead
ReserveStockError(product, quantity) ==
  IF product = <<>> THEN "PRODUCT_NOT_FOUND"
  ELSE IF ~product[1].isActive THEN "PRODUCT_INACTIVE"
  ELSE IF product[1].availableAmount < quantity THEN "PRODUCT_INSUFFICIENT_INVENTORY"
  ELSE ""

\* product.reserveStock arrives
ReserveStockCall(p, id, quantity, snap) ==
  /\ Call(p, "reserveStock", "reserveFind", [id |-> id, quantity |-> quantity],
          <<>>, snap)
  /\ UNCHANGED <<products, customers, orders, created>>

\* getById and the checks of ProductService.reserveStock
ReserveFind(p) ==
  LET me == procs[p]
      product == ProductFindById(me.arg.id)
  IN /\ me.op = "reserveStock" /\ me.pc = "reserveFind"
     /\ IF ReserveStockError(product, me.arg.quantity) # ""
          THEN Done(p, Err(ReserveStockError(product, me.arg.quantity)))
          ELSE Goto(p, "reserveWrite", <<>>)
     /\ UNCHANGED <<products, customers, orders, created>>

\* ProductRepository.decrementStock
ReserveWrite(p) ==
  LET me == procs[p]
  IN /\ me.op = "reserveStock" /\ me.pc = "reserveWrite"
     /\ products' = [products EXCEPT ![me.arg.id].availableAmount = @ - me.arg.quantity]
     /\ Done(p, Ok(NoId))
     /\ UNCHANGED <<customers, orders, created>>

ReserveStock(p) == ReserveFind(p) \/ ReserveWrite(p)

\* product.restoreStock arrives; the amount it may write is kept within
\* -stockCap .. stockCap
RestoreStockCall(p, id, quantity, stockCap, snap) ==
  /\ products[id].availableAmount + quantity <= stockCap
  /\ Call(p, "restoreStock", "restoreFind", [id |-> id, quantity |-> quantity],
          [cap |-> stockCap], snap)
  /\ UNCHANGED <<products, customers, orders, created>>

\* getById of ProductService.restoreStock: the new amount is computed here
RestoreFind(p) ==
  LET me == procs[p]
      product == ProductFindById(me.arg.id)
  IN /\ me.op = "restoreStock" /\ me.pc = "restoreFind"
     /\ product # <<>> =>
          /\ product[1].availableAmount + me.arg.quantity <= me.loc.cap
          /\ product[1].availableAmount >= -me.loc.cap
     /\ IF product = <<>>
          THEN Done(p, Err("PRODUCT_NOT_FOUND"))
          ELSE Goto(p, "restoreWrite",
                    [newAmount |-> product[1].availableAmount + me.arg.quantity])
     /\ UNCHANGED <<products, customers, orders, created>>

\* ProductRepository.updateStock with the amount computed before
RestoreWrite(p) ==
  LET me == procs[p]
  IN /\ me.op = "restoreStock" /\ me.pc = "restoreWrite"
     /\ products' = [products EXCEPT ![me.arg.id].availableAmount = me.loc.newAmount]
     /\ Done(p, Ok(NoId))
     /\ UNCHANGED <<customers, orders, created>>

RestoreStockOp(p) == RestoreFind(p) \/ RestoreWrite(p)

\* product.updateStock arrives
UpdateStockCall(p, id, newAmount, snap) ==
  /\ Call(p, "updateStock", "updateStockFind", [id |-> id, newAmount |-> newAmount],
          <<>>, snap)
  /\ UNCHANGED <<products, customers, orders, created>>

\* validateStock and getById of ProductService.updateStock
UpdateStockFind(p) ==
  LET me == procs[p]
  IN /\ me.op = "updateStock" /\ me.pc = "updateStockFind"
     /\ IF ~ValidateStock(me.arg.newAmount)
          THEN Done(p, Err("PRODUCT_INVALID_QUANTITY"))
          ELSE IF ProductFindById(me.arg.id) = <<>>
            THEN Done(p, Err("PRODUCT_NOT_FOUND"))
            ELSE Goto(p, "updateStockWrite", <<>>)
     /\ UNCHANGED <<products, customers, orders, created>>

\* ProductRepository.updateStock
UpdateStockWrite(p) ==
  LET me == procs[p]
  IN /\ me.op = "updateStock" /\ me.pc = "updateStockWrite"
     /\ products' = [products EXCEPT ![me.arg.id].availableAmount = me.arg.newAmount]
     /\ Done(p, Ok(NoId))
     /\ UNCHANGED <<customers, orders, created>>

UpdateStock(p) == UpdateStockFind(p) \/ UpdateStockWrite(p)

----------------------------------------------------------------------------
(* CustomerService.delete *)

CustomerDeleteCall(p, id, snap) ==
  /\ Call(p, "customerDelete", "customerDeleteFind", [id |-> id], <<>>, snap)
  /\ UNCHANGED <<products, customers, orders, created>>

CustomerDeleteFind(p) ==
  LET me == procs[p]
  IN /\ me.op = "customerDelete" /\ me.pc = "customerDeleteFind"
     /\ IF CustomerFindById(me.arg.id) = <<>>
          THEN Done(p, Err("CUSTOMER_NOT_FOUND"))
          ELSE Goto(p, "customerDeleteWrite", <<>>)
     /\ UNCHANGED <<products, customers, orders, created>>

\* CustomerRepository.softDelete
CustomerDeleteWrite(p) ==
  LET me == procs[p]
  IN /\ me.op = "customerDelete" /\ me.pc = "customerDeleteWrite"
     /\ customers' = [customers EXCEPT ![me.arg.id].isDeleted = TRUE,
                                       ![me.arg.id].isActive = FALSE]
     /\ Done(p, Ok(NoId))
     /\ UNCHANGED <<products, orders, created>>

CustomerDelete(p) == CustomerDeleteFind(p) \/ CustomerDeleteWrite(p)

----------------------------------------------------------------------------
(* Initial tables: the two products of the example catalogue and one customer *)

InitTables(stock) ==
  /\ products = [q \in Products |->
       [ price           |-> IF q = "P" THEN 10000000 ELSE 2500000,
         availableAmount |-> stock[q],
         isActive        |-> TRUE,
         isDeleted       |-> FALSE ]]
  /\ customers = << [email |-> "ana@x.co", isActive |-> TRUE, isDeleted |-> FALSE] >>
  /\ orders = <<>>
  /\ created = <<>>
  /\ procs = [p \in Procs |-> Idle]

Line(q, n, u) == [productId |-> q, quantity |-> n, unitPrice |-> u]

CreateInput(c, e, l, s, d) ==
  [customerId |-> c, email |-> e, lines |-> l, shippingCost |-> s, discount |-> d]

----------------------------------------------------------------------------
(* Spec: the order lifecycle, one call at a time *)

Init == InitTables([P |-> 7, Q |-> 8])

LifecycleLines ==
  { << Line("P", 2, NoPrice), Line("Q", 3, NoPrice) >>,
    << Line("P", 4, NoPrice), Line("P", 4, NoPrice) >>,
    << Line("Q", 9, 1000) >> }

LifecycleInputs ==
  { CreateInput(c, NoEmail, l, 0, 0) : c \in {NoId, 1}, l \in LifecycleLines }
    \cup { CreateInput(NoId, "leo@x.co", l, 0, 0) : l \in LifecycleLines }

LifecycleCalls(p) ==
  \/ \E input \in LifecycleInputs : CreateCall(p, input, MaxOrders, Snapshot)
  \/ \E id \in OrderIds : CancelCall(p, id, MaxStock, Snapshot)
  \/ \E id \in OrderIds, status \in OrderStatus :
        UpdateCall(p, id, UpdateStatusData(status), Snapshot)
  \/ \E id \in OrderIds : DeleteCall(p, id, Snapshot)

Next ==
  \E p \in SeqProcs :
     LifecycleCalls(p) \/ Create(p) \/ Cancel(p) \/ Update(p) \/ Delete(p) \/ Return(p)

Spec == Init /\ [][Next]_vars

----------------------------------------------------------------------------
(* Claims about the order lifecycle, checked under Spec *)

\* the calls that have returned and whose response is not yet sent
Returned(op) == {p \in Procs : procs[p].op = op /\ procs[p].pc = "done"}

\* the order a call names was there, and visible, when the call arrived
KnewOrder(p) ==
  /\ procs[p].arg.id \in DOMAIN procs[p].pre.orders
  /\ ~procs[p].pre.orders[procs[p].arg.id].isDeleted

\* the restricted table of the Result Pattern guide
RestrictedTransitions ==
  [ PENDIENTE  |-> {"PROCESANDO", "CANCELADO"},
    PROCESANDO |-> {"DESPACHADO", "CANCELADO"},
    DESPACHADO |-> {"CANCELADO"},
    CANCELADO  |-> {} ]

\* C2: an update that changes the status succeeds exactly when the pair
\* (current, new) is in the restricted table; otherwise it fails with
\* ORDER_INVALID_STATUS_TRANSITION and the order is as it was.
C2_OnlyRestrictedTransitions ==
  \A p \in Returned("update") :
     LET id == procs[p].arg.id
         new == procs[p].arg.data.orderStatus
         was == procs[p].pre.orders[id]
     IN (KnewOrder(p) /\ new # NoStatus /\ new # was.orderStatus) =>
          IF new \in RestrictedTransitions[was.orderStatus]
            THEN procs[p].res.ok /\ orders[id].orderStatus = new
            ELSE /\ procs[p].res.code = "ORDER_INVALID_STATUS_TRANSITION"
                 /\ orders[id] = was

\* C3: CANCELADO is terminal: no step takes an order out of CANCELADO.
C3_CanceladoIsTerminal ==
  [][\A id \in OrderIds :
        orders[id].orderStatus = "CANCELADO" => orders'[id].orderStatus = "CANCELADO"]_vars

\* C5: order.create is all-or-nothing.  A create that failed left the orders,
\* their items and every stock as it found them; a create that succeeded added
\* one order with an item per line and took each line's quantity off its product.
C5_CreateAllOrNothing ==
  \A p \in Returned("create") :
     LET was == procs[p].pre
         lines == procs[p].arg.lines
         id == procs[p].res.id
     IN IF procs[p].res.ok
          THEN /\ Len(orders) = Len(was.orders) + 1
               /\ id = Len(orders)
               /\ \A o \in DOMAIN was.orders : orders[o] = was.orders[o]
               /\ Len(orders[id].orderItems) = Len(lines)
               /\ \A i \in DOMAIN lines :
                     /\ orders[id].orderItems[i].productId = lines[i].productId
                     /\ orders[id].orderItems[i].quantity = lines[i].quantity
               /\ \A q \in Products :
                     products[q].availableAmount =
                        was.products[q].availableAmount - QtyOf(lines, q)
          ELSE /\ orders = was.orders
               /\ \A q \in Products :
                     products[q].availableAmount = was.products[q].availableAmount

\* a create whose transaction was hit by a database fault has returned
C5_Witness ==
  \E p \in Returned("create") :
     /\ procs[p].res.code = "DATABASE_QUERY_ERROR"
     /\ Len(procs[p].arg.lines) = 2

\* C6: order.cancel on an order that is not CANCELADO succeeds, leaves it
\* CANCELADO with cancelledAt set, and gives each product back the quantities
\* of the order's items.
C6_CancelRestoresStock ==
  \A p \in Returned("cancel") :
     LET id == procs[p].arg.id
         was == procs[p].pre
     IN (KnewOrder(p) /\ was.orders[id].orderStatus # "CANCELADO") =>
          /\ procs[p].res.ok
          /\ orders[id].orderStatus = "CANCELADO"
          /\ orders[id].cancelledAt # NullDate
          /\ \A q \in Products :
                products[q].availableAmount =
                   was.products[q].availableAmount + QtyOf(orders[id].orderItems, q)

\* the example: items [2, 3] against availability [5, 5] give [7, 8]
C6_Witness ==
  \E p \in Returned("cancel") :
     LET id == procs[p].arg.id
         was == procs[p].pre
     IN /\ procs[p].res.ok
        /\ was.orders[id].orderStatus = "PENDIENTE"
        /\ [i \in DOMAIN orders[id].orderItems |-> orders[id].orderItems[i].quantity]
              = <<2, 3>>
        /\ was.products["P"].availableAmount = 5 /\ was.products["Q"].availableAmount = 5
        /\ products["P"].availableAmount = 7 /\ products["Q"].availableAmount = 8
        /\ orders[id].cancelledAt # NullDate

----------------------------------------------------------------------------
(* TotalsSpec: order.create over prices, shipping costs and discounts *)

TotalsInit == InitTables([P |-> 10, Q |-> 50])

TotalsLines ==
  { << Line("P", 1, NoPrice), Line("Q", 2, NoPrice) >>,
    << Line("Q", 1, 50) >>,
    << Line("Q", 2, 1000) >>,
    << Line("P", 1, 2050), Line("Q", 1, NoPrice) >> }

TotalsInputs ==
  { CreateInput(1, NoEmail, l, s, d) : l \in TotalsLines, s \in {0, 1000}, d \in {0, 100, 5000} }

TotalsNext ==
  \E p \in SeqProcs :
     \/ \E input \in TotalsInputs : CreateCall(p, input, MaxOrders, Snapshot)
     \/ CreateValidateStock(p)
     \/ CreateGetCustomer(p)
     \/ CreateCalculateTotals(p)
     \/ CreateOrderNumber(p)
     \/ CreateItemsData(p)
     \/ CreateTx(p)
     \/ Return(p)

TotalsSpec == TotalsInit /\ [][TotalsNext]_vars

\* round(subtotal x 0.19) to a whole unit of currency, in cents
RoundedTax(subtotal) == ((TAX_RATE * subtotal + 5000) \div 10000) * 100

\* the sum over the lines of (unit price if given, else the price the product
\* had when the call arrived) x quantity
LinesSubtotal(lines, catalogue) ==
  SumSeq([i \in DOMAIN lines |->
            (IF lines[i].unitPrice # NoPrice THEN lines[i].unitPrice
             ELSE catalogue[lines[i].productId].price) * lines[i].quantity])

\* C4: every order of a successful create has subtotal = sum of unit price x
\* quantity, taxAmount = round(subtotal x 0.19) and
\* totalAmount = subtotal + taxAmount + shippingCost - discount.
C4_TotalsAsComputed ==
  \A p \in Returned("create") :
     procs[p].res.ok =>
       LET o == orders[procs[p].res.id]
       IN /\ o.subtotal = LinesSubtotal(procs[p].arg.lines, procs[p].pre.products)
          /\ o.taxAmount = RoundedTax(o.subtotal)
          /\ o.totalAmount = o.subtotal + o.taxAmount + o.shippingCost - o.discount

----------------------------------------------------------------------------
(* CatalogSpec: orders against a catalogue whose prices change and whose    *)
(* products, customers and orders are soft-deleted                          *)

CatalogLines ==
  { << Line("P", 1, NoPrice), Line("Q", 2, NoPrice) >>,
    << Line("P", 1, 777) >> }

CatalogInputs ==
  { CreateInput(1, NoEmail, l, 0, 0) : l \in CatalogLines }
    \cup { CreateInput(NoId, "leo@x.co", l, 0, 0) : l \in CatalogLines }

\* prices of product.update: a new price, and one above validatePrice's limit
CatalogPrices == {12300, 10000000 * 100 + 1}

CatalogCalls(p) ==
  \/ \E input \in CatalogInputs : CreateCall(p, input, MaxOrders, NoSnapshot)
  \/ \E id \in Products, price \in CatalogPrices : ProductUpdateCall(p, id, price, NoSnapshot)
  \/ \E id \in Products : ProductDeleteCall(p, id, NoSnapshot)
  \/ \E id \in CustomerIds : CustomerDeleteCall(p, id, NoSnapshot)
  \/ \E id \in OrderIds : DeleteCall(p, id, NoSnapshot)

CatalogNext ==
  \E p \in SeqProcs :
     \/ CatalogCalls(p)
     \/ Create(p)
     \/ ProductUpdate(p)
     \/ ProductDelete(p)
     \/ CustomerDelete(p)
     \/ Delete(p)
     \/ Return(p)

CatalogSpec == Init /\ [][CatalogNext]_vars

\* what a response shows of an order's items
ItemsShown(items) ==
  [i \in DOMAIN items |->
     [productId |-> items[i].productId, quantity |-> items[i].quantity,
      unitPrice |-> items[i].unitPrice]]

TotalsShown(o) ==
  [subtotal |-> o.subtotal, taxAmount |-> o.taxAmount, shippingCost |-> o.shippingCost,
   discount |-> o.discount, totalAmount |-> o.totalAmount]

\* C8: getById and getByOrderNumber return the order's N items with the product
\* ids, quantities and unit prices captured at creation, and the totals of
\* creation, whatever product.update has done to the prices since.
C8_RoundTrip ==
  \A id \in OrderIds :
     ~orders[id].isDeleted =>
        LET byId == FindById(id)
            byNumber == FindByOrderNumber(created[id].order.orderNumber)
        IN /\ byId # <<>>
           /\ byNumber = byId
           /\ ItemsShown([i \in DOMAIN byId[1].orderItems |-> byId[1].orderItems[i].item])
                = ItemsShown(created[id].order.orderItems)
           /\ TotalsShown(byId[1].order) = TotalsShown(created[id].order)

\* an order is fetched after the price of one of its products has changed
C8_Witness ==
  \E id \in OrderIds :
     /\ FindById(id) # <<>>
     /\ Len(FindById(id)[1].orderItems) = 2
     /\ \E i \in DOMAIN orders[id].orderItems :
           LET item == FindById(id)[1].orderItems[i]
           IN /\ item.product[1].price = 12300
              /\ item.item.unitPrice # 12300

\* the ids of a page of orders
IdsOf(data) == {data[k].id : k \in DOMAIN data}

ListFilters ==
  { NoFilters,
    [NoFilters EXCEPT !.orderStatus = "PENDIENTE"],
    [NoFilters EXCEPT !.customerId = 1],
    [NoFilters EXCEPT !.productId = "P"] }

\* C10: a soft-deleted order, product or customer is returned by no find or
\* list query of its own entity, while every order that is not deleted is
\* returned by getById with all its items, their products and its customer,
\* soft-deleted or not.
C10_SoftDeleteExclusion ==
  /\ \A id \in OrderIds :
        orders[id].isDeleted =>
          /\ FindById(id) = <<>>
          /\ FindByOrderNumber(orders[id].orderNumber) = <<>>
          /\ \A f \in ListFilters, page \in 1..2, limit \in 1..2 :
                id \notin IdsOf(FindMany(f, page, limit).data)
          /\ id \notin IdsOf(GetPendingOrders)
          /\ id \notin IdsOf(GetByCustomerId(orders[id].customerId, 1, 10).data)
  /\ \A q \in Products :
        products[q].isDeleted =>
          /\ ProductFindById(q) = <<>>
          /\ FindProductById(q) = <<>>
          /\ \A a \in {"any", "yes", "no"}, inStock \in BOOLEAN :
                q \notin ProductFindMany(a, inStock)
          /\ q \notin GetLowStockProducts(LOW_STOCK_THRESHOLD)
  /\ \A c \in CustomerIds :
        customers[c].isDeleted =>
          /\ CustomerFindById(c) = <<>>
          /\ FindCustomerById(c) = <<>>
          /\ FindCustomerByEmail(customers[c].email) # <<c>>
          /\ \A e \in Emails \cup {NoEmail} : c \notin CustomerFindMany(e)
  /\ \A id \in OrderIds :
        ~orders[id].isDeleted =>
          LET got == FindById(id)
          IN /\ got # <<>>
             /\ got[1].customer = <<customers[orders[id].customerId]>>
             /\ Len(got[1].orderItems) = Len(created[id].order.orderItems)
             /\ \A i \in DOMAIN got[1].orderItems :
                   got[1].orderItems[i].product
                      = <<products[orders[id].orderItems[i].productId]>>

\* an order is fetched whose customer and one of whose products are soft-deleted
C10_Witness ==
  \E id \in OrderIds :
     /\ FindById(id) # <<>>
     /\ customers[orders[id].customerId].isDeleted
     /\ \E i \in DOMAIN orders[id].orderItems :
           products[orders[id].orderItems[i].productId].isDeleted
     /\ Len(FindById(id)[1].orderItems) = 2

----------------------------------------------------------------------------
(* CustSpec: orders that carry inline customer data, by two request slots *)

CustInputs ==
  { CreateInput(NoId, e, << Line("Q", 1, NoPrice) >>, 0, 0) : e \in Emails }

CustNext ==
  \E p \in Procs :
     \/ \E input \in CustInputs : CreateCall(p, input, MaxSameEmail, NoSnapshot)
     \/ \E id \in CustomerIds : CustomerDeleteCall(p, id, NoSnapshot)
     \/ Create(p)
     \/ CustomerDelete(p)
     \/ Return(p)

CustSpec == Init /\ [][CustNext]_vars

\* C9: two orders created with inline customer data of the same email
\* reference the same customer, who has that email, and no second customer
\* with that email exists.
C9_CustomerReusedByEmail ==
  \A i \in DOMAIN created :
     created[i].email # NoEmail =>
        /\ customers[orders[i].customerId].email = created[i].email
        /\ Cardinality({c \in CustomerIds : customers[c].email = created[i].email}) = 1
        /\ \A j \in DOMAIN created :
              created[j].email = created[i].email =>
                 orders[j].customerId = orders[i].customerId

\* two orders carry an email no customer held at the start; both reference
\* the customer the first of them created
C9_Witness ==
  /\ Len(created) = 2
  /\ created[1].email = "leo@x.co" /\ created[2].email = "leo@x.co"
  /\ orders[1].customerId = 2 /\ orders[2].customerId = 2
  /\ Len(customers) = 2

----------------------------------------------------------------------------
(* ConcSpec: two request slots served at once; every interleaving of the    *)
(* statements of the stock operations                                       *)

ConcInit == InitTables([P |-> 3, Q |-> 2])

ConcLines ==
  { << Line("P", 2, NoPrice) >>,
    << Line("P", 1, NoPrice), Line("Q", 1, NoPrice) >> }

ConcInputs == { CreateInput(1, NoEmail, l, 0, 0) : l \in ConcLines }

ConcCalls(p) ==
  \/ \E input \in ConcInputs : CreateCall(p, input, MaxOrders, NoSnapshot)
  \/ \E id \in OrderIds : CancelCall(p, id, MaxConcStock, NoSnapshot)
  \/ ReserveStockCall(p, "P", 2, NoSnapshot)
  \/ RestoreStockCall(p, "P", 1, MaxConcStock, NoSnapshot)
  \/ UpdateStockCall(p, "P", 0, NoSnapshot)

ConcNext ==
  \E p \in Procs :
     \/ ConcCalls(p)
     \/ CreateValidateStock(p)
     \/ CreateGetCustomer(p)
     \/ CreateCalculateTotals(p)
     \/ CreateOrderNumber(p)
     \/ CreateItemsData(p)
     \/ CreateTx(p)
     \/ Cancel(p)
     \/ ReserveStock(p)
     \/ RestoreStockOp(p)
     \/ UpdateStock(p)
     \/ Return(p)

ConcSpec == ConcInit /\ [][ConcNext]_vars

\* C1: in every reachable state every product's availableAmount is >= 0.
C1_StockNeverNegative ==
  \A q \in Products : products[q].availableAmount >= 0

\* C7: a cancel that commits on an order that is CANCELADO by then restores
\* no stock: each item's quantity goes back to its product once in total.
C7_CancelRestoresOnce ==
  [][\A p \in Procs :
        ( /\ procs[p].op = "cancel" /\ procs[p].pc = "cancelTxWrite"
          /\ procs'[p].pc = "done"
          /\ orders[procs[p].arg.id].orderStatus = "CANCELADO" )
        => products' = products]_vars

----------------------------------------------------------------------------
(* ErrorSpec: calls that must be refused: unknown, inactive or deleted      *)
(* products, short stock, no customer                                       *)

\* a product id that is in no row of the products table
NoProduct == "X"

ErrorLines ==
  { << Line("P", 1, NoPrice) >>,
    << Line(NoProduct, 1, NoPrice) >>,
    << Line("P", 1, NoPrice), Line(NoProduct, 1, 1000) >>,
    << Line("P", 1, NoPrice), Line("Q", 1, NoPrice) >>,
    << Line("P", 8, NoPrice) >> }

ErrorInputs == { CreateInput(c, NoEmail, l, 0, 0) : c \in {NoId, 1}, l \in ErrorLines }

ErrorCalls(p) ==
  \/ \E input \in ErrorInputs : CreateCall(p, input, MaxOrders, Snapshot)
  \/ DeactivateCall(p, "Q", Snapshot)
  \/ ProductDeleteCall(p, "Q", Snapshot)
  \/ \E id \in Products, quantity \in {3, 9} : ReserveStockCall(p, id, quantity, Snapshot)

ErrorNext ==
  \E p \in SeqProcs :
     \/ ErrorCalls(p)
     \/ CreateValidateStock(p)
     \/ CreateGetCustomer(p)
     \/ CreateCalculateTotals(p)
     \/ CreateOrderNumber(p)
     \/ CreateItemsData(p)
     \/ CreateTx(p)
     \/ Deactivate(p)
     \/ ProductDelete(p)
     \/ ReserveStock(p)
     \/ Return(p)

ErrorSpec == Init /\ [][ErrorNext]_vars

\* the call left the orders and every stock as it found them
NothingCreated(p) ==
  /\ orders = procs[p].pre.orders
  /\ \A q \in Products :
        products[q].availableAmount = procs[p].pre.products[q].availableAmount

\* line i names a product with no row, or one that is soft-deleted
LineProductMissing(p, i) ==
  LET q == procs[p].arg.lines[i].productId
  IN q \notin Products \/ procs[p].pre.products[q].isDeleted

LineProductInactive(p, i) ==
  LET q == procs[p].arg.lines[i].productId
  IN q \in Products /\ ~procs[p].pre.products[q].isDeleted /\ ~procs[p].pre.products[q].isActive

LineShortOfStock(p, i) ==
  LET line == procs[p].arg.lines[i]
  IN /\ line.productId \in Products
     /\ ~procs[p].pre.products[line.productId].isDeleted
     /\ procs[p].pre.products[line.productId].isActive
     /\ line.quantity > procs[p].pre.products[line.productId].availableAmount

\* C11: order.create fails with PRODUCT_NOT_FOUND when a line's product does
\* not exist, fails when a line's product is inactive, fails with
\* PRODUCT_INSUFFICIENT_INVENTORY when a line asks for more than the stock, and
\* fails when no customer is given; each time nothing is created or decremented.
C11_CreateErrorCodes ==
  \A p \in Returned("create") :
     LET lines == procs[p].arg.lines
         missing == \E i \in DOMAIN lines : LineProductMissing(p, i)
         inactive == \E i \in DOMAIN lines : LineProductInactive(p, i)
         short == \E i \in DOMAIN lines : LineShortOfStock(p, i)
         nobody == procs[p].arg.customerId = NoId /\ procs[p].arg.email = NoEmail
     IN /\ (missing \/ inactive \/ short \/ nobody) => ~procs[p].res.ok /\ NothingCreated(p)
        /\ missing => procs[p].res.code = "PRODUCT_NOT_FOUND"
        /\ (short /\ ~missing /\ ~inactive) =>
              procs[p].res.code = "PRODUCT_INSUFFICIENT_INVENTORY"

\* C12: reserveStock of a product that is there fails with PRODUCT_INACTIVE
\* when the product is deactivated, and with PRODUCT_INSUFFICIENT_INVENTORY
\* when the product is active and q exceeds its availableAmount; either way
\* the availableAmount stays as it was.
C12_ReserveRefused ==
  \A p \in Returned("reserveStock") :
     LET was == procs[p].pre.products[procs[p].arg.id]
     IN ~was.isDeleted =>
          /\ ~was.isActive =>
                /\ procs[p].res.code = "PRODUCT_INACTIVE"
                /\ products = procs[p].pre.products
          /\ (was.isActive /\ procs[p].arg.quantity > was.availableAmount) =>
                /\ procs[p].res.code = "PRODUCT_INSUFFICIENT_INVENTORY"
                /\ products = procs[p].pre.products

\* C12 as stated: q above the availableAmount always gives
\* PRODUCT_INSUFFICIENT_INVENTORY, a deactivated product PRODUCT_INACTIVE
C12_ReserveRefusedAsStated ==
  \A p \in Returned("reserveStock") :
     LET was == procs[p].pre.products[procs[p].arg.id]
     IN /\ procs[p].arg.quantity > was.availableAmount =>
              /\ procs[p].res.code = "PRODUCT_INSUFFICIENT_INVENTORY"
              /\ products = procs[p].pre.products
        /\ ~was.isActive =>
              /\ procs[p].res.code = "PRODUCT_INACTIVE"
              /\ products = procs[p].pre.products

\* both refusals have happened: a reservation above the stock of the active
\* product P, and one on the deactivated product Q
C12_Witness ==
  \E p \in Returned("reserveStock") :
     LET was == procs[p].pre.products[procs[p].arg.id]
     IN /\ ~was.isDeleted /\ ~was.isActive
        /\ procs[p].res.code = "PRODUCT_INACTIVE"
        /\ products["P"].availableAmount < 3

----------------------------------------------------------------------------
(* Further claims about the order lifecycle, checked under Spec *)

\* C13: no step of order.updateStatus changes a product's availableAmount,
\* whatever the target status, CANCELADO included; a step that raises a
\* stock is a step of order.cancel.
C13_UpdateStatusLeavesStock ==
  [][ /\ \A p \in Procs :
            (procs[p].op = "update" /\ procs'[p] # procs[p]) => products' = products
      /\ (\E q \in Products :
            products'[q].availableAmount > products[q].availableAmount)
           => \E p \in Procs : procs[p].op = "cancel" /\ procs'[p].pc = "done" ]_vars

\* updateStatus(id, CANCELADO) has succeeded and the stock the order took is
\* still taken
C13_Witness ==
  \E p \in Returned("update") :
     /\ procs[p].res.ok
     /\ procs[p].arg.data.orderStatus = "CANCELADO"
     /\ procs[p].pre.orders[procs[p].arg.id].orderStatus = "PENDIENTE"
     /\ orders[procs[p].arg.id].orderStatus = "CANCELADO"
     /\ products["P"].availableAmount = 5 /\ products["Q"].availableAmount = 5

\* C14: order.cancel on an order that is CANCELADO fails with
\* ORDER_ALREADY_CANCELLED; the order and every stock stay as they were.
C14_CancelAlreadyCancelled ==
  \A p \in Returned("cancel") :
     (KnewOrder(p) /\ procs[p].pre.orders[procs[p].arg.id].orderStatus = "CANCELADO") =>
        /\ procs[p].res.code = "ORDER_ALREADY_CANCELLED"
        /\ orders = procs[p].pre.orders
        /\ products = procs[p].pre.products

\* a second cancel of an order has been refused
C14_Witness ==
  \E p \in Returned("cancel") :
     /\ procs[p].res.code = "ORDER_ALREADY_CANCELLED"
     /\ orders[procs[p].arg.id].orderStatus = "CANCELADO"
     /\ orders[procs[p].arg.id].cancelledAt # NullDate

\* C15: order.delete soft-deletes a PENDIENTE or CANCELADO order; on a
\* PROCESANDO or DESPACHADO order it fails with VALIDATION_INVALID_INPUT and
\* the order stays visible and unchanged.
C15_DeleteOnlyPendingOrCancelled ==
  \A p \in Returned("delete") :
     LET id == procs[p].arg.id
         was == procs[p].pre.orders[id]
     IN KnewOrder(p) =>
          IF was.orderStatus \in {"CANCELADO", "PENDIENTE"}
            THEN /\ procs[p].res.ok
                 /\ orders = [procs[p].pre.orders EXCEPT ![id].isDeleted = TRUE]
                 /\ FindById(id) = <<>>
            ELSE /\ procs[p].res.code = "VALIDATION_INVALID_INPUT"
                 /\ orders = procs[p].pre.orders
                 /\ FindById(id) # <<>>

\* the delete of a DESPACHADO order has been refused
C15_Witness ==
  \E p \in Returned("delete") :
     /\ procs[p].res.code = "VALIDATION_INVALID_INPUT"
     /\ orders[procs[p].arg.id].orderStatus = "DESPACHADO"
     /\ FindById(procs[p].arg.id) # <<>>

-----------------------------------------------------------------------------
(* The transport boundary: unwrap and convertAppErrorToTRPCError *)

ErrorCodes ==
  [ORDER |->
     [NOT_FOUND |-> "ORDER_NOT_FOUND",
      ALREADY_CANCELLED |-> "ORDER_ALREADY_CANCELLED",
      CANNOT_BE_MODIFIED |-> "ORDER_CANNOT_BE_MODIFIED",
      INVALID_STATUS_TRANSITION |-> "ORDER_INVALID_STATUS_TRANSITION",
      ITEMS_REQUIRED |-> "ORDER_ITEMS_REQUIRED",
      TOTAL_MISMATCH |-> "ORDER_TOTAL_MISMATCH",
      ALREADY_SHIPPED |-> "ORDER_ALREADY_SHIPPED",
      ALREADY_DELIVERED |-> "ORDER_ALREADY_DELIVERED"],
   PRODUCT |->
     [NOT_FOUND |-> "PRODUCT_NOT_FOUND",
      OUT_OF_STOCK |-> "PRODUCT_OUT_OF_STOCK",
      INSUFFICIENT_INVENTORY |-> "PRODUCT_INSUFFICIENT_INVENTORY",
      INACTIVE |-> "PRODUCT_INACTIVE",
      INVALID_QUANTITY |-> "PRODUCT_INVALID_QUANTITY",
      PRICE_INVALID |-> "PRODUCT_PRICE_INVALID",
      CATEGORY_NOT_FOUND |-> "PRODUCT_CATEGORY_NOT_FOUND"],
   CUSTOMER |->
     [NOT_FOUND |-> "CUSTOMER_NOT_FOUND",
      EMAIL_EXISTS |-> "CUSTOMER_EMAIL_EXISTS",
      INVALID_EMAIL |-> "CUSTOMER_INVALID_EMAIL",
      INACTIVE |-> "CUSTOMER_INACTIVE",
      MISSING_REQUIRED_FIELDS |-> "CUSTOMER_MISSING_REQUIRED_FIELDS",
      INVALID_PHONE |-> "CUSTOMER_INVALID_PHONE"],
   NOTIFICATION |->
     [FAILED_TO_SEND |-> "NOTIFICATION_FAILED_TO_SEND",
      OPENAI_API_ERROR |-> "NOTIFICATION_OPENAI_API_ERROR",
      TEMPLATE_NOT_FOUND |-> "NOTIFICATION_TEMPLATE_NOT_FOUND",
      INVALID_RECIPIENT |-> "NOTIFICATION_INVALID_RECIPIENT",
      RATE_LIMITED |-> "NOTIFICATION_RATE_LIMITED",
      GENERATION_FAILED |-> "NOTIFICATION_GENERATION_FAILED"],
   DATABASE |->
     [CONNECTION_ERROR |-> "DATABASE_CONNECTION_ERROR",
      QUERY_ERROR |-> "DATABASE_QUERY_ERROR",
      TRANSACTION_ERROR |-> "DATABASE_TRANSACTION_ERROR",
      CONSTRAINT_VIOLATION |-> "DATABASE_CONSTRAINT_VIOLATION",
      UNIQUE_CONSTRAINT |-> "DATABASE_UNIQUE_CONSTRAINT",
      FOREIGN_KEY_CONSTRAINT |-> "DATABASE_FOREIGN_KEY_CONSTRAINT",
      TIMEOUT |-> "DATABASE_TIMEOUT",
      MIGRATION_ERROR |-> "DATABASE_MIGRATION_ERROR"],
   VALIDATION |->
     [INVALID_INPUT |-> "VALIDATION_INVALID_INPUT",
      REQUIRED_FIELD |-> "VALIDATION_REQUIRED_FIELD",
      INVALID_FORMAT |-> "VALIDATION_INVALID_FORMAT",
      OUT_OF_RANGE |-> "VALIDATION_OUT_OF_RANGE",
      INVALID_ENUM |-> "VALIDATION_INVALID_ENUM",
      SCHEMA_ERROR |-> "VALIDATION_SCHEMA_ERROR"],
   AUTH |->
     [UNAUTHORIZED |-> "AUTH_UNAUTHORIZED",
      FORBIDDEN |-> "AUTH_FORBIDDEN",
      SESSION_EXPIRED |-> "AUTH_SESSION_EXPIRED",
      INVALID_TOKEN |-> "AUTH_INVALID_TOKEN"],
   SYSTEM |->
     [INTERNAL_ERROR |-> "SYSTEM_INTERNAL_ERROR",
      SERVICE_UNAVAILABLE |-> "SYSTEM_SERVICE_UNAVAILABLE",
      CONFIGURATION_ERROR |-> "SYSTEM_CONFIGURATION_ERROR",
      EXTERNAL_SERVICE_ERROR |-> "SYSTEM_EXTERNAL_SERVICE_ERROR",
      NETWORK_ERROR |-> "SYSTEM_NETWORK_ERROR"]]

\* the codes of one group, and of the whole taxonomy
GroupCodes(g) == { ErrorCodes[g][k] : k \in DOMAIN ErrorCodes[g] }
TaxonomyCodes == UNION { GroupCodes(g) : g \in DOMAIN ErrorCodes }

\* the table of convertAppErrorToTRPCError, listed by target as the code
\* lists it by source
codeMap ==
  [c \in TaxonomyCodes |->
     CASE c \in {"ORDER_NOT_FOUND", "PRODUCT_NOT_FOUND",
                 "PRODUCT_CATEGORY_NOT_FOUND", "CUSTOMER_NOT_FOUND",
                 "NOTIFICATION_TEMPLATE_NOT_FOUND"} -> "NOT_FOUND"
       [] c \in {"ORDER_ALREADY_CANCELLED", "ORDER_CANNOT_BE_MODIFIED",
                 "ORDER_INVALID_STATUS_TRANSITION", "ORDER_ALREADY_SHIPPED",
                 "ORDER_ALREADY_DELIVERED", "PRODUCT_OUT_OF_STOCK",
                 "PRODUCT_INSUFFICIENT_INVENTORY", "PRODUCT_INACTIVE",
                 "CUSTOMER_EMAIL_EXISTS", "CUSTOMER_INACTIVE",
                 "DATABASE_CONSTRAINT_VIOLATION", "DATABASE_UNIQUE_CONSTRAINT",
                 "DATABASE_FOREIGN_KEY_CONSTRAINT"} -> "CONFLICT"
       [] c \in {"ORDER_ITEMS_REQUIRED", "ORDER_TOTAL_MISMATCH",
                 "PRODUCT_INVALID_QUANTITY", "PRODUCT_PRICE_INVALID",
                 "CUSTOMER_INVALID_EMAIL", "CUSTOMER_MISSING_REQUIRED_FIELDS",
                 "CUSTOMER_INVALID_PHONE", "NOTIFICATION_INVALID_RECIPIENT",
                 "VALIDATION_INVALID_INPUT", "VALIDATION_REQUIRED_FIELD",
                 "VALIDATION_INVALID_FORMAT", "VALIDATION_OUT_OF_RANGE",
                 "VALIDATION_INVALID_ENUM", "VALIDATION_SCHEMA_ERROR"}
            -> "BAD_REQUEST"
       [] c \in {"AUTH_UNAUTHORIZED", "AUTH_SESSION_EXPIRED",
                 "AUTH_INVALID_TOKEN"} -> "UNAUTHORIZED"
       [] c = "AUTH_FORBIDDEN" -> "FORBIDDEN"
       [] c = "NOTIFICATION_RATE_LIMITED" -> "TOO_MANY_REQUESTS"
       [] c = "DATABASE_TIMEOUT" -> "TIMEOUT"
       [] OTHER -> "INTERNAL_SERVER_ERROR"]

\* a plausible slip: the lookup without its fallback
ConvertWithoutFallback(code) ==
  IF code \in DOMAIN codeMap THEN codeMap[code] ELSE "undefined"

\* codeMap[error.code] || 'INTERNAL_SERVER_ERROR'
convertAppErrorToTRPCError(code) ==
  IF code \in DOMAIN codeMap THEN codeMap[code] ELSE "INTERNAL_SERVER_ERROR"

\* codes no table lists (a failure wrapped by a library, a later addition)
UnknownCodes == {"PAYMENT_DECLINED", "UNKNOWN_ERROR"}

\* the Results a service call can hand to a router procedure
ServiceResults ==
  {Ok(1)} \cup { Err(c) : c \in TaxonomyCodes \cup UnknownCodes }

\* a router procedure awaits its service call
ServiceReturns(p, res) ==
  /\ procs[p].pc = "idle"
  /\ procs' = [procs EXCEPT ![p] =
       [op |-> "procedure", pc |-> "done", arg |-> <<>>, loc |-> <<>>,
        res |-> res, pre |-> NoSnapshot]]
  /\ UNCHANGED <<products, customers, orders, created>>

\* unwrap(result): the data, or the TRPCError of the failure
Unwrap(p) ==
  /\ procs[p].op = "procedure"
  /\ procs[p].pc = "done"
  /\ Goto(p, "unwrapped",
          IF procs[p].res.ok
          THEN [thrown |-> FALSE, code |-> ""]
          ELSE [thrown |-> TRUE,
                code |-> convertAppErrorToTRPCError(procs[p].res.code)])
  /\ UNCHANGED <<products, customers, orders, created>>

\* the response is sent
Respond(p) ==
  /\ procs[p].op = "procedure"
  /\ procs[p].pc = "unwrapped"
  /\ procs' = [procs EXCEPT ![p] = Idle]
  /\ UNCHANGED <<products, customers, orders, created>>

TransportNext ==
  \E p \in Procs :
    \/ \E res \in ServiceResults : ServiceReturns(p, res)
    \/ Unwrap(p)
    \/ Respond(p)

TransportSpec == Init /\ [][TransportNext]_vars

\* the procedures whose failure unwrap has thrown
Thrown == {p \in Procs : procs[p].pc = "unwrapped" /\ procs[p].loc.thrown}

\* the transport categories the specification names
FiveCategories ==
  {"NOT_FOUND", "CONFLICT", "BAD_REQUEST", "UNAUTHORIZED",
   "INTERNAL_SERVER_ERROR"}

\* the codes of the taxonomy that bear one of the keys
KeyedCodes(keys) ==
  UNION { { ErrorCodes[g][k] : k \in keys \cap DOMAIN ErrorCodes[g] } :
          g \in DOMAIN ErrorCodes }

\* the keys of the taxonomy by the kind of failure they name
NotFoundKeys == {"NOT_FOUND", "CATEGORY_NOT_FOUND", "TEMPLATE_NOT_FOUND"}
ConflictKeys ==
  {"ALREADY_CANCELLED", "CANNOT_BE_MODIFIED", "INVALID_STATUS_TRANSITION",
   "ALREADY_SHIPPED", "ALREADY_DELIVERED", "OUT_OF_STOCK",
   "INSUFFICIENT_INVENTORY", "INACTIVE", "EMAIL_EXISTS",
   "CONSTRAINT_VIOLATION", "UNIQUE_CONSTRAINT", "FOREIGN_KEY_CONSTRAINT"}
InputKeys ==
  {"ITEMS_REQUIRED", "TOTAL_MISMATCH", "INVALID_QUANTITY", "PRICE_INVALID",
   "INVALID_EMAIL", "MISSING_REQUIRED_FIELDS", "INVALID_PHONE",
   "INVALID_RECIPIENT"}

\* C16 as stated: every failure a router throws carries one of the five
\* categories not-found, conflict, bad-request, unauthorized, internal.
C16_FiveCategories ==
  \A p \in Thrown : procs[p].loc.code \in FiveCategories

\* C16: every failure a router throws carries exactly one transport
\* category, which is one of the five named ones or FORBIDDEN, TIMEOUT or
\* TOO_MANY_REQUESTS: not-found codes give NOT_FOUND, conflict, inventory and
\* duplicate codes CONFLICT, VALIDATION codes and the input codes of the other
\* groups BAD_REQUEST, AUTH codes UNAUTHORIZED (AUTH_FORBIDDEN: FORBIDDEN),
\* DATABASE_TIMEOUT gives TIMEOUT, NOTIFICATION_RATE_LIMITED
\* TOO_MANY_REQUESTS, and every other code, unknown ones included,
\* INTERNAL_SERVER_ERROR.
C16_TransportCategories ==
  \A p \in Thrown :
    LET code == procs[p].res.code
        trpc == procs[p].loc.code
        notFound == KeyedCodes(NotFoundKeys)
        conflict == KeyedCodes(ConflictKeys)
        input == GroupCodes("VALIDATION") \cup KeyedCodes(InputKeys)
    IN  /\ trpc \in FiveCategories
                    \cup {"FORBIDDEN", "TIMEOUT", "TOO_MANY_REQUESTS"}
        /\ code \in notFound => trpc = "NOT_FOUND"
        /\ code \in conflict => trpc = "CONFLICT"
        /\ code \in input => trpc = "BAD_REQUEST"
        /\ code \in GroupCodes("AUTH") =>
             trpc = IF code = ErrorCodes.AUTH.FORBIDDEN
                    THEN "FORBIDDEN" ELSE "UNAUTHORIZED"
        /\ code = ErrorCodes.DATABASE.TIMEOUT => trpc = "TIMEOUT"
        /\ code = ErrorCodes.NOTIFICATION.RATE_LIMITED =>
             trpc = "TOO_MANY_REQUESTS"
        /\ code \notin notFound \cup conflict \cup input
                       \cup GroupCodes("AUTH")
                       \cup {ErrorCodes.DATABASE.TIMEOUT,
                             ErrorCodes.NOTIFICATION.RATE_LIMITED}
             => trpc = "INTERNAL_SERVER_ERROR"

\* an unknown code has been thrown as an internal error while a not-found
\* failure was thrown as NOT_FOUND
C16_Witness ==
  \E p, q \in Thrown :
    /\ procs[p].res.code \in UnknownCodes
    /\ procs[p].loc.code = "INTERNAL_SERVER_ERROR"
    /\ procs[q].res.code = "ORDER_NOT_FOUND"
    /\ procs[q].loc.code = "NOT_FOUND"

-----------------------------------------------------------------------------
(* order.create racing with the product service *)

RaceLines ==
  { << Line("P", 1, NoPrice) >>,
    << Line("P", 1, NoPrice), Line("Q", 1, NoPrice) >>,
    << Line("Q", 1, 1000) >> }

RaceInputs == { CreateInput(1, NoEmail, l, 0, 0) : l \in RaceLines }

RaceCalls(p) ==
  \/ \E input \in RaceInputs : CreateCall(p, input, MaxOrders, NoSnapshot)
  \/ DeactivateCall(p, "Q", NoSnapshot)
  \/ ProductDeleteCall(p, "P", NoSnapshot)

RaceNext ==
  \E p \in Procs :
     \/ RaceCalls(p)
     \/ CreateValidateStock(p)
     \/ CreateGetCustomer(p)
     \/ CreateCalculateTotals(p)
     \/ CreateOrderNumber(p)
     \/ CreateItemsData(p)
     \/ CreateTx(p)
     \/ Deactivate(p)
     \/ ProductDelete(p)
     \/ Return(p)

RaceSpec == ConcInit /\ [][RaceNext]_vars

\* C17: no service call ends in a thrown exception: whatever the other
\* requests do meanwhile, what a call hands to the router is a success or a
\* failure Result.
C17_NoServiceThrows ==
  \A p \in Procs :
    procs[p].pc = "done" => procs[p].res.code # "THROWN_TypeError"

-----------------------------------------------------------------------------
(* CustomerService.create and CustomerService.update *)

\* customers_email_key: the rows, deleted ones included, that hold the email
EmailHolders(email) == {c \in CustomerIds : customers[c].email = email}

CustomerCreateCall(p, email, snap) ==
  /\ Len(customers) < MaxCustomers
  /\ Call(p, "customerCreate", "customerCreateFind", [email |-> email], <<>>, snap)
  /\ UNCHANGED <<products, customers, orders, created>>

\* findMany({ email }): the duplication check
CustomerCreateFind(p) ==
  LET me == procs[p]
  IN /\ me.op = "customerCreate" /\ me.pc = "customerCreateFind"
     /\ IF CustomerFindMany(me.arg.email) # {}
          THEN Done(p, Err("CUSTOMER_EMAIL_EXISTS"))
          ELSE Goto(p, "customerCreateWrite", <<>>)
     /\ UNCHANGED <<products, customers, orders, created>>

\* CustomerRepository.create: P2002 on email becomes CUSTOMER_EMAIL_EXISTS
CustomerCreateWrite(p) ==
  LET me == procs[p]
  IN /\ me.op = "customerCreate" /\ me.pc = "customerCreateWrite"
     /\ IF EmailHolders(me.arg.email) # {}
          THEN /\ Done(p, Err("CUSTOMER_EMAIL_EXISTS"))
               /\ UNCHANGED customers
          ELSE /\ customers' = Append(customers,
                     [email |-> me.arg.email, isActive |-> TRUE, isDeleted |-> FALSE])
               /\ Done(p, Ok(Len(customers) + 1))
     /\ UNCHANGED <<products, orders, created>>

CustomerCreate(p) == CustomerCreateFind(p) \/ CustomerCreateWrite(p)

\* email = NoEmail: the update changes other fields only
CustomerUpdateCall(p, id, email, snap) ==
  /\ Call(p, "customerUpdate", "customerUpdateFind",
          [id |-> id, email |-> email], <<>>, snap)
  /\ UNCHANGED <<products, customers, orders, created>>

\* getById(id): the customer as the service sees it from now on
CustomerUpdateFind(p) ==
  LET me == procs[p]
      existing == CustomerFindById(me.arg.id)
  IN /\ me.op = "customerUpdate" /\ me.pc = "customerUpdateFind"
     /\ IF existing = <<>>
          THEN Done(p, Err("CUSTOMER_NOT_FOUND"))
          ELSE IF me.arg.email # NoEmail /\ me.arg.email # existing[1].email
                 THEN Goto(p, "customerUpdateEmailCheck", <<>>)
                 ELSE Goto(p, "customerUpdateWrite", <<>>)
     /\ UNCHANGED <<products, customers, orders, created>>

\* findMany({ email: input.email }): the duplication check
CustomerUpdateEmailCheck(p) ==
  LET me == procs[p]
  IN /\ me.op = "customerUpdate" /\ me.pc = "customerUpdateEmailCheck"
     /\ IF CustomerFindMany(me.arg.email) # {}
          THEN Done(p, Err("CUSTOMER_EMAIL_EXISTS"))
          ELSE Goto(p, "customerUpdateWrite", <<>>)
     /\ UNCHANGED <<products, customers, orders, created>>

\* CustomerRepository.update: every failure, P2002 too, is a database error
CustomerUpdateWrite(p) ==
  LET me == procs[p]
  IN /\ me.op = "customerUpdate" /\ me.pc = "customerUpdateWrite"
     /\ IF me.arg.email # NoEmail /\ EmailHolders(me.arg.email) \ {me.arg.id} # {}
          THEN /\ Done(p, Err("DATABASE_QUERY_ERROR"))
               /\ UNCHANGED customers
          ELSE /\ customers' =
                    IF me.arg.email = NoEmail THEN customers
                    ELSE [customers EXCEPT ![me.arg.id].email = me.arg.email]
               /\ Done(p, Ok(me.arg.id))
     /\ UNCHANGED <<products, orders, created>>

CustomerUpdate(p) ==
  CustomerUpdateFind(p) \/ CustomerUpdateEmailCheck(p) \/ CustomerUpdateWrite(p)

EmailCalls(p) ==
  \/ \E input \in CustInputs : CreateCall(p, input, MaxOrders, NoSnapshot)
  \/ \E email \in Emails : CustomerCreateCall(p, email, NoSnapshot)
  \/ \E id \in CustomerIds, email \in Emails \cup {NoEmail} :
        CustomerUpdateCall(p, id, email, NoSnapshot)
  \/ \E id \in CustomerIds : CustomerDeleteCall(p, id, NoSnapshot)

EmailNext ==
  \E p \in Procs :
     \/ EmailCalls(p)
     \/ Create(p)
     \/ CustomerCreate(p)
     \/ CustomerUpdate(p)
     \/ CustomerDelete(p)
     \/ Return(p)

EmailSpec == Init /\ [][EmailNext]_vars

\* the visible customers other than `self` who hold the email
OtherHolders(email, self) ==
  {c \in CustomerIds \ {self} :
     customers[c].email = email /\ ~customers[c].isDeleted}

\* C18: no two visible customers share an email, and a customer.create or
\* an email-changing customer.update that fails while another visible
\* customer holds the email fails with CUSTOMER_EMAIL_EXISTS.
C18_EmailUnique ==
  [][ /\ \A c, d \in DOMAIN customers' :
           (/\ c # d
            /\ ~customers'[c].isDeleted
            /\ ~customers'[d].isDeleted) => customers'[c].email # customers'[d].email
      /\ \A p \in Procs :
           (/\ procs[p].op \in {"customerCreate", "customerUpdate"}
            /\ procs[p].pc # "done"
            /\ procs'[p].pc = "done"
            /\ procs[p].op = "customerUpdate" =>
                 /\ CustomerFindById(procs[p].arg.id) # <<>>
                 /\ procs[p].arg.email # NoEmail
                 /\ customers[procs[p].arg.id].email # procs[p].arg.email
            /\ OtherHolders(procs[p].arg.email,
                            IF procs[p].op = "customerUpdate"
                            THEN procs[p].arg.id ELSE NoId) # {})
           => procs'[p].res.code = "CUSTOMER_EMAIL_EXISTS" ]_vars

-----------------------------------------------------------------------------
(* Order numbers under ConcSpec *)

\* C19: when order.create inserts its order, no order in the table, soft
\* deleted or not, holds the order number generateOrderNumber gave it, and
\* no two orders share an order number.
C19_OrderNumberFree ==
  [][ /\ \A p \in Procs :
           (/\ procs[p].op = "create"
            /\ procs[p].pc = "createTx"
            /\ procs'[p].pc # "createTx")
           => \A id \in OrderIds :
                 orders[id].orderNumber # procs[p].loc.orderNumber
      /\ \A i, j \in DOMAIN orders' :
           i # j => orders'[i].orderNumber # orders'[j].orderNumber ]_vars

-----------------------------------------------------------------------------
(* AmountSpec: order.update of shippingCost and discount, one call at a time *)

AmountInputs ==
  { CreateInput(1, NoEmail, l, s, d) :
      l \in { << Line("P", 1, NoPrice) >>,
              << Line("P", 1, NoPrice), Line("Q", 2, NoPrice) >> },
      s \in {0, 150000}, d \in {0, 50000} }

\* updateData that leaves the status alone
UpdateAmountsData(shippingCost, discount) ==
  [orderStatus |-> NoStatus, shippingCost |-> shippingCost, discount |-> discount]

AmountCalls(p) ==
  \/ \E input \in AmountInputs : CreateCall(p, input, MaxOrders, Snapshot)
  \/ \E id \in OrderIds, s \in {NoPrice, 0, 250000}, d \in {NoPrice, 0, 100000} :
        UpdateCall(p, id, UpdateAmountsData(s, d), Snapshot)

AmountNext ==
  \E p \in SeqProcs :
     \/ AmountCalls(p)
     \/ CreateValidateStock(p)
     \/ CreateGetCustomer(p)
     \/ CreateCalculateTotals(p)
     \/ CreateOrderNumber(p)
     \/ CreateItemsData(p)
     \/ CreateTx(p)
     \/ Update(p)
     \/ Return(p)

AmountSpec == Init /\ [][AmountNext]_vars

\* C20: every order row satisfies
\* totalAmount = subtotal + taxAmount + shippingCost - discount, also after
\* order.update has changed its shippingCost or its discount.
C20_TotalIdentity ==
  \A id \in OrderIds :
     orders[id].totalAmount =
       orders[id].subtotal + orders[id].taxAmount
         + orders[id].shippingCost - orders[id].discount

-----------------------------------------------------------------------------
(* Amounts of the orders created under TotalsSpec *)

\* C21: subtotal, taxAmount, shippingCost, discount and totalAmount of every
\* order are non-negative, whatever non-negative shippingCost and discount
\* the call gave.
C21_AmountsNonNegative ==
  \A id \in OrderIds :
     /\ orders[id].subtotal >= 0
     /\ orders[id].taxAmount >= 0
     /\ orders[id].shippingCost >= 0
     /\ orders[id].discount >= 0
     /\ orders[id].totalAmount >= 0

-----------------------------------------------------------------------------
(* Range filters of order.getAll, on the orders of CatalogSpec *)

\* filters that give both ends of a range
RangeFilters ==
  { [NoFilters EXCEPT !.minAmount = lo, !.maxAmount = hi] :
      lo \in {0, 1000}, hi \in {0, 20000000} }
  \cup { [NoFilters EXCEPT !.dateFrom = from, !.dateTo = to] :
           from \in {1, 2}, to \in {2, 3} }

\* C22: with both ends of a date range or of an amount range given,
\* order.getAll returns exactly the orders that are not deleted and lie
\* between the two ends, a bound of 0 included.
C22_RangeFilters ==
  \A f \in RangeFilters :
     IdsOf(FindMany(f, 1, 10).data) =
       {id \in OrderIds :
          /\ ~orders[id].isDeleted
          /\ f.dateFrom # NoDate => (f.dateFrom <= id /\ id <= f.dateTo)
          /\ f.minAmount # NoPrice =>
               /\ f.minAmount <= orders[id].totalAmount
               /\ orders[id].totalAmount <= f.maxAmount}

-----------------------------------------------------------------------------
(* OrderItemService.create: an item added to an existing order *)

MaxItems == 3         \* items of one order in ItemSpec

\* unitPrice absent from the input of orderItem.create; a unit price that is
\* given is a service-side value [c, f] of c cents and f hundredths of a cent
NoUnitPrice == [c |-> NoPrice, f |-> 0]

\* quantity * unitPrice
TimesQuantity(a, quantity) ==
  [c |-> a.c * quantity + ((a.f * quantity) \div 100), f |-> (a.f * quantity) % 100]

\* calculateOrderItemTotals: Math.max(0, quantity * unitPrice - discount)
CalculateOrderItemTotals(quantity, unitPrice, discount) ==
  LET totalPrice == SubCents(TimesQuantity(unitPrice, quantity), discount)
  IN [ unitPrice  |-> unitPrice,
       discount   |-> discount,
       totalPrice |-> IF totalPrice.c < 0 THEN Exact(0) ELSE totalPrice ]

OrderItemCreateCall(p, orderId, productId, quantity, unitPrice, discount, snap) ==
  /\ Call(p, "orderItemCreate", "orderItemFind",
          [orderId |-> orderId, productId |-> productId, quantity |-> quantity,
           unitPrice |-> unitPrice, discount |-> discount],
          [unitPrice |-> NoUnitPrice], snap)
  /\ UNCHANGED <<products, customers, orders, created>>

\* findProductById and `input.unitPrice ?? Number(product.price)`
OrderItemCreateFind(p) ==
  LET me == procs[p]
      product == FindProductById(me.arg.productId)
  IN /\ me.op = "orderItemCreate" /\ me.pc = "orderItemFind"
     /\ IF product = <<>>
          THEN Done(p, Err("PRODUCT_NOT_FOUND"))
          ELSE Goto(p, "orderItemValidateStock",
                    [unitPrice |-> IF me.arg.unitPrice # NoUnitPrice
                                     THEN me.arg.unitPrice
                                     ELSE Exact(product[1].price)])
     /\ UNCHANGED <<products, customers, orders, created>>

\* validateStock(productId, quantity): the product is read again
OrderItemCreateValidateStock(p) ==
  LET me == procs[p]
      product == FindProductById(me.arg.productId)
  IN /\ me.op = "orderItemCreate" /\ me.pc = "orderItemValidateStock"
     /\ IF product = <<>>
          THEN Done(p, Err("PRODUCT_NOT_FOUND"))
          ELSE IF product[1].availableAmount < me.arg.quantity
            THEN Done(p, Err("PRODUCT_INSUFFICIENT_INVENTORY"))
            ELSE Goto(p, "orderItemWrite", me.loc)
     /\ UNCHANGED <<products, customers, orders, created>>

\* OrderItemRepository.create: the row as its DECIMAL columns store it; an
\* order id the orders table does not hold violates the foreign key (P2003)
OrderItemCreateWrite(p) ==
  LET me == procs[p]
      calculation == CalculateOrderItemTotals(me.arg.quantity, me.loc.unitPrice,
                                              me.arg.discount)
      row == [ productId  |-> me.arg.productId,
               quantity   |-> me.arg.quantity,
               unitPrice  |-> ToDecimal2(calculation.unitPrice),
               totalPrice |-> ToDecimal2(calculation.totalPrice),
               discount   |-> calculation.discount ]
  IN /\ me.op = "orderItemCreate" /\ me.pc = "orderItemWrite"
     /\ IF me.arg.orderId \notin OrderIds
          THEN /\ Done(p, Err("VALIDATION_INVALID_INPUT"))
               /\ UNCHANGED orders
          ELSE /\ orders' = [orders EXCEPT ![me.arg.orderId].orderItems =
                                              Append(@, row)]
               /\ Done(p, Ok(me.arg.orderId))
     /\ UNCHANGED <<products, customers, created>>

OrderItemCreate(p) ==
  OrderItemCreateFind(p) \/ OrderItemCreateValidateStock(p) \/ OrderItemCreateWrite(p)

\* unit prices of 10.00 and of 0.125, and the product's own price
ItemUnitPrices == {NoUnitPrice, Exact(1000), [c |-> 12, f |-> 50]}

ItemCalls(p) ==
  \/ \E unitPrice \in {NoPrice, 1999} :
        CreateCall(p, CreateInput(1, NoEmail, << Line("P", 2, unitPrice) >>, 0, 0),
                   MaxOrders, Snapshot)
  \/ \E orderId \in OrderIds \cup {Len(orders) + 1}, productId \in Products,
        quantity \in {2, 9}, unitPrice \in ItemUnitPrices, discount \in {0, 5000} :
        /\ orderId \in OrderIds => Len(orders[orderId].orderItems) < MaxItems
        /\ OrderItemCreateCall(p, orderId, productId, quantity, unitPrice,
                               discount, Snapshot)

ItemNext ==
  \E p \in SeqProcs :
     \/ ItemCalls(p)
     \/ CreateValidateStock(p)
     \/ CreateGetCustomer(p)
     \/ CreateCalculateTotals(p)
     \/ CreateOrderNumber(p)
     \/ CreateItemsData(p)
     \/ CreateTx(p)
     \/ OrderItemCreate(p)
     \/ Return(p)

ItemSpec == Init /\ [][ItemNext]_vars

\* C23: every order item, created with its order or added to it later, has
\* totalPrice = max(0, unitPrice x quantity - discount).
C23_ItemTotalPrice ==
  \A id \in OrderIds :
    \A i \in DOMAIN orders[id].orderItems :
       LET item == orders[id].orderItems[i]
           total == item.unitPrice * item.quantity - item.discount
       IN item.totalPrice = IF total < 0 THEN 0 ELSE total

-----------------------------------------------------------------------------
(* Stock increments and decrements under ConcSpec *)

\* C24: the write of product.restoreStock(id, q) leaves the product with q
\* more than it had, and the write of product.reserveStock(id, q) with q
\* less, whatever order.create, order.cancel, reserveStock and restoreStock
\* did in the other request slot since the call read the product.
C24_NoLostStockUpdate ==
  [][ \A p \in Procs :
        (\A q \in Procs : procs[q].op # "updateStock") =>
        /\ (procs[p].pc = "restoreWrite" /\ procs'[p].pc = "done") =>
              products'[procs[p].arg.id].availableAmount =
                products[procs[p].arg.id].availableAmount + procs[p].arg.quantity
        /\ (procs[p].pc = "reserveWrite" /\ procs'[p].pc = "done") =>
              products'[procs[p].arg.id].availableAmount =
                products[procs[p].arg.id].availableAmount - procs[p].arg.quantity
    ]_vars

-----------------------------------------------------------------------------
(* Orders that ask for one product on several lines, under Spec *)

\* C25: a create that runs alone and asks, over all its lines together, for
\* more of a product than there is fails with PRODUCT_INSUFFICIENT_INVENTORY
\* and leaves every stock as it was.
C25_SummedQuantityRefused ==
  \A p \in Returned("create") :
     (/\ procs[p].arg.customerId # NoId
      /\ \E q \in Products :
            QtyOf(procs[p].arg.lines, q) > procs[p].pre.products[q].availableAmount)
     => /\ procs[p].res.code = "PRODUCT_INSUFFICIENT_INVENTORY"
        /\ products = procs[p].pre.products

-----------------------------------------------------------------------------
(* Stock conservation under Spec *)

\* what product q has in stock plus what the orders that are not cancelled
\* hold of it
StockAndLiveOrders(q, prods, ords) ==
  prods[q].availableAmount
    + SumSeq([i \in DOMAIN ords |->
                IF ords[i].orderStatus # "CANCELADO"
                  THEN QtyOf(ords[i].orderItems, q) ELSE 0])

\* C26: for every product, the stock plus the quantities held by the orders
\* that are not CANCELADO stays the same through every step of order.create,
\* order.cancel, order.updateStatus, order.update and order.delete.
C26_StockConservation ==
  [][ \A q \in Products :
        StockAndLiveOrders(q, products', orders')
          = StockAndLiveOrders(q, products, orders) ]_vars

-----------------------------------------------------------------------------
(* Inline customers of failed creates, under Spec *)

\* C27: an order.create that returns a failure has left the customers table
\* as it found it.
C27_FailedCreateLeavesCustomers ==
  \A p \in Returned("create") :
     ~procs[p].res.ok => customers = procs[p].pre.customers

-----------------------------------------------------------------------------
(* ProductSpec: the flags of the products, one call at a time *)

ActivateCall(p, id, snap) ==
  /\ Call(p, "activate", "activateWrite", [id |-> id], <<>>, snap)
  /\ UNCHANGED <<products, customers, orders, created>>

\* ProductService.activate: productRepository.update(id, {isActive: true}),
\* with no look at the product first
Activate(p) ==
  LET me == procs[p]
  IN /\ me.op = "activate" /\ me.pc = "activateWrite"
     /\ products' = [products EXCEPT ![me.arg.id].isActive = TRUE]
     /\ Done(p, Ok(NoId))
     /\ UNCHANGED <<customers, orders, created>>

ProductCalls(p) ==
  \E id \in Products :
     \/ ProductDeleteCall(p, id, Snapshot)
     \/ ActivateCall(p, id, Snapshot)
     \/ DeactivateCall(p, id, Snapshot)
     \/ \E price \in CatalogPrices : ProductUpdateCall(p, id, price, Snapshot)

ProductNext ==
  \E p \in SeqProcs :
     \/ ProductCalls(p)
     \/ ProductDelete(p)
     \/ Activate(p)
     \/ Deactivate(p)
     \/ ProductUpdate(p)
     \/ Return(p)

ProductSpec == Init /\ [][ProductNext]_vars

\* C28: every soft-deleted product is inactive, and no step changes a
\* product that is soft-deleted.
C28_DeletedProductInactive ==
  [][ \A q \in Products :
        /\ products'[q].isDeleted => ~products'[q].isActive
        /\ products[q].isDeleted => products'[q] = products[q] ]_vars

-----------------------------------------------------------------------------
(* ReuseSpec: the emails of soft-deleted customers, two request slots *)

ReuseCalls(p) ==
  \/ CreateCall(p, CreateInput(NoId, "ana@x.co", << Line("Q", 1, NoPrice) >>, 0, 0),
                MaxOrders, Snapshot)
  \/ CustomerCreateCall(p, "ana@x.co", Snapshot)
  \/ \E id \in CustomerIds : CustomerUpdateCall(p, id, "leo@x.co", Snapshot)
  \/ \E id \in CustomerIds : CustomerDeleteCall(p, id, Snapshot)

ReuseNext ==
  \E p \in Procs :
     \/ ReuseCalls(p)
     \/ Create(p)
     \/ CustomerCreate(p)
     \/ CustomerUpdate(p)
     \/ CustomerDelete(p)
     \/ Return(p)

ReuseSpec == Init /\ [][ReuseNext]_vars

\* the call in slot p arrived when a soft-deleted customer held the email it
\* wants to give a customer
WantsDeletedEmail(p) ==
  /\ \/ procs[p].op \in {"customerCreate", "customerUpdate"}
     \/ procs[p].op = "create" /\ procs[p].arg.customerId = NoId
  /\ procs[p].arg.email # NoEmail
  /\ \E c \in DOMAIN procs[p].pre.customers :
        /\ procs[p].pre.customers[c].isDeleted
        /\ procs[p].pre.customers[c].email = procs[p].arg.email

\* C29: no two customers, soft-deleted ones included, hold the same email,
\* and a customer.create, customer.update or order.create that arrives when
\* a soft-deleted customer holds its email fails and none of its steps
\* creates or changes a customer, whatever the other request slot does.
C29_EmailNeverReused ==
  [][ /\ \A c, d \in DOMAIN customers' :
           c # d => customers'[c].email # customers'[d].email
      /\ \A p \in Procs :
           (WantsDeletedEmail(p) /\ procs'[p] # procs[p]) =>
              /\ customers' = customers
              /\ procs'[p].pc = "done" => ~procs'[p].res.ok ]_vars

-----------------------------------------------------------------------------
(* The cancellation stamp, under Spec *)

\* C30: an order has a cancelledAt exactly when its status is CANCELADO.
C30_CancelledAtIffCancelled ==
  \A id \in OrderIds :
     orders[id].cancelledAt # NullDate <=> orders[id].orderStatus = "CANCELADO"

====
